---- MODULE Spec2Model ----
(***************************************************************************)
(* Model of the user_authen_service backend: the pagination middleware,    *)
(* the HATEOAS link builders of the list routes, the entity classes        *)
(* (User, ActiveToken, Project, ProjectFile) over a row store, and the     *)
(* route handlers that use them.                                           *)
(*                                                                         *)
(* Three specifications share the module:                                  *)
(*   SpecList   - pagination and link building, as functions of a request  *)
(*   SpecEntity - the entity classes' methods called on one instance       *)
(*   Spec       - the route handlers, one store query per step             *)
(*                                                                         *)
(* Strings that the code takes apart or rewrites (query values, serialized *)
(* query strings) are sequences of one-character strings.                  *)
(***************************************************************************)
EXTENDS Integers, Sequences, FiniteSets, TLC

VARIABLES
    \* ---- SpecList: one list request
    route,        \* which list route serves the request
    query,        \* req.query: sequence of [name, value] in request order
    total,        \* the total that findAll returned
    pagination,   \* req.pagination, set by paginate
    links,        \* the links object of the response
    lpc,          \* position of the list request
    \* ---- the store and the clock
    db,           \* the tables: id -> row
    autoinc,      \* next AUTO_INCREMENT id of each table
    now,          \* the clock read by new Date()
    \* ---- SpecEntity: one entity instance and the last method called on it
    ent,          \* the instance (Null before the first constructor call)
    call,         \* the last call: its name, arguments and whether it threw
    pre,          \* the instance and the store as they were before that call
    queries,      \* the store queries that call issued, in order
    synced,       \* the instance was loaded or saved and no field value
                  \* has changed since
    \* ---- Spec: the HTTP requests the server is handling
    reqs,         \* request slot -> the request, its handler's position
                  \* and locals, and its response
    \* ---- SpecPool: the connection pool of db.ts
    pool          \* connections opened and in use, queries waiting, and
                  \* what became of the last query issued

listVars == <<route, query, total, pagination, links, lpc>>

storeVars == <<db, autoinc, now>>

entityVars == <<ent, call, pre, queries, synced>>

vars == <<route, query, total, pagination, links, lpc, db, autoinc, now,
          ent, call, pre, queries, synced, reqs, pool>>

Null == [null |-> TRUE]

-----------------------------------------------------------------------------
(* Bounds of the model. *)

MaxTotal == 7
MaxLimitRaw == 3
MaxOffsetRaw == 5
MaxId == 2
MaxUser == 2
MaxNow == 1

-----------------------------------------------------------------------------
(* JavaScript strings and numbers. *)

Digits == <<"0", "1", "2", "3", "4", "5", "6", "7", "8", "9">>

IsDigit(c) == \E i \in 1..10 : Digits[i] = c

DigitVal(c) == (CHOOSE i \in 1..10 : Digits[i] = c) - 1

Str_limit == <<"l", "i", "m", "i", "t">>
Str_offset == <<"o", "f", "f", "s", "e", "t">>
Str_undefined == <<"u", "n", "d", "e", "f", "i", "n", "e", "d">>
Str_q == <<"q">>
Str_xoffset == <<"x", "o", "f", "f", "s", "e", "t">>
Str_sort == <<"s", "o", "r", "t">>
Str_order == <<"o", "r", "d", "e", "r">>
Str_asc == <<"a", "s", "c">>
Str_desc == <<"d", "e", "s", "c">>
Str_Bogus == <<"B", "o", "g", "u", "s">>
Str_true == <<"t", "r", "u", "e">>
Str_false == <<"f", "a", "l", "s", "e">>
Str_ProjectID == <<"P", "r", "o", "j", "e", "c", "t", "I", "D">>
Str_ProjectName == <<"P", "r", "o", "j", "e", "c", "t", "N", "a", "m", "e">>
Str_OwningUserID == <<"O", "w", "n", "i", "n", "g", "U", "s", "e", "r", "I", "D">>
Str_CreationDate == <<"C", "r", "e", "a", "t", "i", "o", "n", "D", "a", "t", "e">>
Str_FileID == <<"F", "i", "l", "e", "I", "D">>
Str_FileName == <<"F", "i", "l", "e", "N", "a", "m", "e">>
Str_IsDirectory == <<"I", "s", "D", "i", "r", "e", "c", "t", "o", "r", "y">>
Str_null == <<"n", "u", "l", "l">>
Str_UserID == <<"U", "s", "e", "r", "I", "D">>
Str_sub == <<"s", "u", "b">>
Str_email == <<"e", "m", "a", "i", "l">>
Str_name == <<"n", "a", "m", "e">>
Str_picture == <<"p", "i", "c", "t", "u", "r", "e">>
Str_lastLogin == <<"l", "a", "s", "t", "L", "o", "g", "i", "n">>
Str_TokenID == <<"T", "o", "k", "e", "n", "I", "D">>
Str_TTL == <<"T", "T", "L">>
Str_ParentDirectory ==
    <<"P", "a", "r", "e", "n", "t", "D", "i", "r", "e", "c", "t", "o", "r", "y">>

\* Number.prototype.toString (radix 10) of an integer.
RECURSIVE NatToString(_)
NatToString(n) ==
    IF n < 10 THEN <<Digits[n + 1]>>
    ELSE NatToString(n \div 10) \o <<Digits[(n % 10) + 1]>>

toString(n) == IF n < 0 THEN <<"-">> \o NatToString(-n) ELSE NatToString(n)

NaN == [nan |-> TRUE, val |-> 0]

Num(n) == [nan |-> FALSE, val |-> n]

RECURSIVE SkipWhiteSpace(_)
SkipWhiteSpace(s) ==
    IF Len(s) > 0 /\ s[1] = " " THEN SkipWhiteSpace(Tail(s)) ELSE s

RECURSIVE ScanDigits(_, _, _)
ScanDigits(s, i, acc) ==
    IF i > Len(s) \/ ~IsDigit(s[i]) THEN acc
    ELSE ScanDigits(s, i + 1, acc * 10 + DigitVal(s[i]))

\* parseInt(string) without a radix: leading white space is skipped, then an
\* optional sign, then the longest prefix of decimal digits; NaN when there
\* is no digit. (The "0x" prefix does not occur in the values enumerated.)
parseInt(s) ==
    LET t == SkipWhiteSpace(s)
        signed == Len(t) > 0 /\ t[1] \in {"-", "+"}
        neg == Len(t) > 0 /\ t[1] = "-"
        u == IF signed THEN Tail(t) ELSE t
    IN  IF Len(u) = 0 \/ ~IsDigit(u[1]) THEN NaN
        ELSE Num((IF neg THEN -1 ELSE 1) * ScanDigits(u, 1, 0))

\* String.prototype.indexOf from position i (1-based; 0 when absent).
RECURSIVE IndexOf(_, _, _)
IndexOf(s, pat, i) ==
    IF i + Len(pat) - 1 > Len(s) THEN 0
    ELSE IF SubSeq(s, i, i + Len(pat) - 1) = pat THEN i
    ELSE IndexOf(s, pat, i + 1)

\* String.prototype.replace(pattern, replacement) with a string pattern:
\* only the first occurrence is replaced.
replace(s, pat, rep) ==
    LET i == IndexOf(s, pat, 1)
    IN  IF i = 0 THEN s
        ELSE SubSeq(s, 1, i - 1) \o rep \o SubSeq(s, i + Len(pat), Len(s))

Max(a, b) == IF a >= b THEN a ELSE b

-----------------------------------------------------------------------------
(* req.query and URLSearchParams. *)

Param(n, v) == [name |-> n, value |-> v]

HasParam(q, n) == \E i \in 1..Len(q) : q[i].name = n

\* req.query[name] coerced to a string: String(undefined) is "undefined".
QueryValue(q, n) ==
    IF HasParam(q, n)
    THEN q[CHOOSE i \in 1..Len(q) : q[i].name = n].value
    ELSE Str_undefined

\* URLSearchParams.set / an object spread followed by the key: an existing
\* key keeps its place and takes the new value, a new key goes last.
ParamsSet(q, n, v) ==
    IF HasParam(q, n)
    THEN [i \in 1..Len(q) |-> IF q[i].name = n THEN Param(n, v) ELSE q[i]]
    ELSE Append(q, Param(n, v))

\* URLSearchParams.toString: name=value joined by "&". The characters of the
\* names and values enumerated here are unreserved, so none is escaped.
RECURSIVE ParamsToString(_)
ParamsToString(q) ==
    IF Len(q) = 0 THEN <<>>
    ELSE LET head == q[1].name \o <<"=">> \o q[1].value
         IN  IF Len(q) = 1 THEN head
             ELSE head \o <<"&">> \o ParamsToString(Tail(q))

-----------------------------------------------------------------------------
(* middleware/pagination.ts *)

paginate_ZeroLimit(q) ==
    LET limit == parseInt(QueryValue(q, Str_limit))
        offset == parseInt(QueryValue(q, Str_offset))
    IN  [limit |-> IF limit.nan \/ limit.val < 0 THEN 25 ELSE limit.val,
         offset |-> IF offset.nan \/ offset.val < 0 THEN 0 ELSE offset.val]

paginate(q) ==
    LET limit == parseInt(QueryValue(q, Str_limit))
        offset == parseInt(QueryValue(q, Str_offset))
    IN  [limit |-> IF limit.nan \/ limit.val <= 0 THEN 25 ELSE limit.val,
         offset |-> IF offset.nan \/ offset.val < 0 THEN 0 ELSE offset.val]

-----------------------------------------------------------------------------
(* Link builders. A link is the serialized query string that follows       *)
(* "<baseUrl>?"; baseUrl is the same in every link of a response.          *)

\* Math.floor((total - 1) / limit) * limit
LastOffset(tot, limit) == ((tot - 1) \div limit) * limit

\* lib/hateoas.ts
generateHATEOASLinks(q, tot, limit, offset) ==
    LET queryParams == ParamsSet(q, Str_limit, toString(limit))
        buildUrl(newOffset) ==
            ParamsToString(ParamsSet(queryParams, Str_offset, toString(newOffset)))
        base == [k \in {"self", "first", "last"} |->
                    CASE k = "self" -> buildUrl(offset)
                      [] k = "first" -> buildUrl(0)
                      [] k = "last" -> buildUrl(LastOffset(tot, limit))]
        prev == "prev" :> buildUrl(Max(offset - limit, 0))
        next == "next" :> buildUrl(offset + limit)
    IN  IF offset > 0 /\ offset + limit < tot THEN base @@ prev @@ next
        ELSE IF offset > 0 THEN base @@ prev
        ELSE IF offset + limit < tot THEN base @@ next
        ELSE base

\* routes/users.ts and routes/project.ts: links written out from limit and
\* offset alone.
InlineUrl(limit, offset) ==
    Str_limit \o <<"=">> \o toString(limit) \o <<"&">>
        \o Str_offset \o <<"=">> \o toString(offset)

InlineLinks(tot, limit, offset) ==
    LET base == [k \in {"self", "first", "last"} |->
                    CASE k = "self" -> InlineUrl(limit, offset)
                      [] k = "first" -> InlineUrl(limit, 0)
                      [] k = "last" -> InlineUrl(limit, LastOffset(tot, limit))]
        next == "next" :> InlineUrl(limit, offset + limit)
        prev == "prev" :> InlineUrl(limit, offset - limit)
    IN  IF offset + limit < tot /\ offset - limit >= 0 THEN base @@ next @@ prev
        ELSE IF offset + limit < tot THEN base @@ next
        ELSE IF offset - limit >= 0 THEN base @@ prev
        ELSE base

\* routes/project_files.ts and the sorted /projects route: the query is
\* serialized once and the other links replace the text "offset=<offset>".
ReplaceLinks(q, tot, limit, offset) ==
    LET queryParams ==
            ParamsToString(ParamsSet(ParamsSet(q, Str_limit, toString(limit)),
                                     Str_offset, toString(offset)))
        current == Str_offset \o <<"=">> \o toString(offset)
        withOffset(n) ==
            replace(queryParams, current, Str_offset \o <<"=">> \o toString(n))
        base == [k \in {"self", "first", "last"} |->
                    CASE k = "self" -> queryParams
                      [] k = "first" -> withOffset(0)
                      [] k = "last" -> withOffset(LastOffset(tot, limit))]
        next == "next" :> withOffset(offset + limit)
        prev == "prev" :> withOffset(offset - limit)
    IN  IF offset + limit < tot /\ offset - limit >= 0 THEN base @@ next @@ prev
        ELSE IF offset + limit < tot THEN base @@ next
        ELSE IF offset - limit >= 0 THEN base @@ prev
        ELSE base

-----------------------------------------------------------------------------
(* The store: four tables of rows keyed by an AUTO_INCREMENT id. The       *)
(* queries of one class do not all spell the table and its id column the   *)
(* same way (Project / Projects, ProjectID / project_id); the model takes  *)
(* each class to have one table keyed by one id column. Any query may      *)
(* fail: the operators below take `ok`, whether the store answers it.      *)

Tables == {"users", "active_tokens", "Project", "ProjectFiles"}

\* null, where the code passes null for an id: ids of the store start at 1,
\* and null and 0 are both falsy in `if (this.ProjectID)`.
NullID == 0

Names == {"a", "b"}

Ids == 1..MaxId

Times == 0..MaxNow

EmptyTable == [i \in {} |-> Null]

Exists(d, t, id) == id \in DOMAIN d[t]

\* INSERT INTO t ...: the row takes the table's next id.
Insert(d, t, id, row) ==
    [d EXCEPT ![t] = [i \in DOMAIN d[t] \cup {id} |->
                          IF i = id THEN row ELSE d[t][i]]]

\* UPDATE t SET cols WHERE id = ?: no row matches when the id is absent.
Update(d, t, id, cols) ==
    IF ~Exists(d, t, id) THEN d
    ELSE [d EXCEPT ![t][id] =
             [c \in DOMAIN d[t][id] |->
                 IF c \in DOMAIN cols THEN cols[c] ELSE d[t][id][c]]]

\* DELETE FROM t WHERE id = ?
Delete(d, t, id) ==
    [d EXCEPT ![t] = [i \in DOMAIN d[t] \ {id} |-> d[t][i]]]

Query(sql, t, id) == [sql |-> sql, table |-> t, id |-> id]

IsWrite(q) == q.sql \in {"INSERT", "UPDATE", "DELETE"}

\* A Date object: the instant it denotes and the object's identity. `===`
\* on two Dates compares identity. An instance holds one Date at a time and
\* compares it only with the one handed to its setter, so two identities
\* are enough: a Date other than the one held takes the other identity.
Date(t, o) == [time |-> t, obj |-> o]

OtherDate(t, held) == Date(t, 1 - held.obj)

\* `a === b`: values of the model carry their type and, for objects, their
\* identity, so strict equality is equality of the model's values.
StrictEquals(a, b) == a = b

\* What a method call leaves behind.
Outcome(e, d, ai, qs, threw, ret) ==
    [ent |-> e, db |-> d, autoinc |-> ai, queries |-> qs, threw |-> threw,
     ret |-> ret]

Bump(ai, t) == [ai EXCEPT ![t] = @ + 1]

\* deleteById of a class over its table t, one store query at a time: at
\* "select" it looks the row up, at "delete" it removes it. Whatever the
\* store throws is caught and turned into false. ret is "true", "false", or
\* "await" while the DELETE is still to be issued.
deleteById(t, id, d, at, ok) ==
    IF at = "select"
    THEN LET q == Query("SELECT", t, id)
         IN  IF ~ok THEN [db |-> d, q |-> q, ret |-> "false"]
             ELSE IF ~Exists(d, t, id) THEN [db |-> d, q |-> q, ret |-> "false"]
             ELSE [db |-> d, q |-> q, ret |-> "await"]
    ELSE LET q == Query("DELETE", t, id)
         IN  IF ~ok THEN [db |-> d, q |-> q, ret |-> "false"]
             ELSE [db |-> Delete(d, t, id), q |-> q, ret |-> "true"]

-----------------------------------------------------------------------------
(* models/user_models.ts: class User *)

User_new(UserID, sub, email, name, picture, lastLogin) ==
    [cls |-> "User", UserID |-> UserID, sub |-> sub, email |-> email,
     name |-> name, picture |-> picture, lastLogin |-> lastLogin]

User_row(e) ==
    [sub |-> e.sub, email |-> e.email, name |-> e.name, picture |-> e.picture,
     lastLogin |-> e.lastLogin.time]

User_toJSON(e) ==
    [UserID |-> e.UserID, sub |-> e.sub, email |-> e.email, name |-> e.name,
     picture |-> e.picture, lastLogin |-> e.lastLogin.time]

User_deleteById(id, d, at, ok) == deleteById("users", id, d, at, ok)

\* A row of users as SELECT * hands it to the code: an object whose
\* properties are the columns, the key column user_id among them.
UserRowObject(d, id) == ("user_id" :> id) @@ d.users[id]

\* obj.k: undefined when the object has no such property. undefined is
\* falsy and reaches a query as NULL, as null does.
Prop(obj, k) == IF k \in DOMAIN obj THEN obj[k] ELSE NullID

User_findById(UserID, d, ai, ok) ==
    LET q == <<Query("SELECT", "users", UserID)>>
    IN  IF ~ok THEN Outcome(Null, d, ai, q, FALSE, FALSE)
        ELSE IF ~Exists(d, "users", UserID)
        THEN Outcome(Null, d, ai, q, FALSE, FALSE)
        ELSE LET row == UserRowObject(d, UserID)
             IN  Outcome(User_new(UserID, row.sub, row.email, row.name,
                                  row.picture, Date(row.lastLogin, 0)),
                         d, ai, q, FALSE, TRUE)

\* The ids of the rows WHERE sub = ?
RowsBySub(d, sub) == {i \in DOMAIN d.users : d.users[i].sub = sub}

\* createOrUpdate, one store query at a time: at "select" the lookup by sub,
\* then at "update" or "insert" the write. `next` is where it continues
\* ("return" and "throw" end it); UserID is what the lookup read from the
\* first row; t is the clock.
User_createOrUpdate(userData, d, ai, t, at, UserID, ok) ==
    LET res(d1, ai1, q, next, uid, user) ==
            [db |-> d1, autoinc |-> ai1, q |-> q, next |-> next,
             UserID |-> uid, user |-> user]
        made(uid) == User_new(uid, userData.sub, userData.email, userData.name,
                              userData.picture, Date(t, 0))
    IN  CASE at = "select" ->
                LET q == Query("SELECT", "users", NullID)
                    ids == RowsBySub(d, userData.sub)
                IN  IF ~ok THEN res(d, ai, q, "throw", NullID, Null)
                    ELSE IF ids # {}
                    THEN LET first == CHOOSE i \in ids : \A j \in ids : i <= j
                         IN  res(d, ai, q, "update",
                                 Prop(UserRowObject(d, first), "UserID"), Null)
                    ELSE res(d, ai, q, "insert", NullID, Null)
          [] at = "update" ->
                LET q == Query("UPDATE", "users", UserID)
                IN  IF ~ok THEN res(d, ai, q, "throw", UserID, Null)
                    ELSE res(Update(d, "users", UserID,
                                    [email |-> userData.email, name |-> userData.name,
                                     picture |-> userData.picture, lastLogin |-> t]),
                             ai, q, "return", UserID, made(UserID))
          [] at = "insert" ->
                LET q == Query("INSERT", "users", NullID)
                IN  IF ~ok THEN res(d, ai, q, "throw", NullID, Null)
                    ELSE res(Insert(d, "users", ai.users, User_row(made(ai.users))),
                             Bump(ai, "users"), q, "return", ai.users,
                             made(ai.users))

-----------------------------------------------------------------------------
(* models/files_models.ts: class Project *)

Project_new(ProjectID, OwningUserID, ProjectName, CreationDate) ==
    [cls |-> "Project", ProjectID |-> ProjectID,
     _owningUserID |-> OwningUserID, _projectName |-> ProjectName,
     _creationDate |-> CreationDate, _isDirty |-> FALSE]

Project_row(e) ==
    [OwningUserID |-> e._owningUserID, ProjectName |-> e._projectName,
     CreationDate |-> e._creationDate.time]

Project_toJSON(e) ==
    [ProjectID |-> e.ProjectID, OwningUserID |-> e._owningUserID,
     ProjectName |-> e._projectName, CreationDate |-> e._creationDate.time]

Project_find(ProjectID, d, ai, ok) ==
    LET q == <<Query("SELECT", "Project", ProjectID)>>
    IN  IF ~ok THEN Outcome(Null, d, ai, q, FALSE, FALSE)
        ELSE IF ~Exists(d, "Project", ProjectID)
        THEN Outcome(Null, d, ai, q, FALSE, FALSE)
        ELSE LET row == d.Project[ProjectID]
             IN  Outcome(Project_new(ProjectID, row.OwningUserID, row.ProjectName,
                                     Date(row.CreationDate, 0)),
                         d, ai, q, FALSE, TRUE)

Project_deleteById(id, d, at, ok) == deleteById("Project", id, d, at, ok)

Project_save_KeepsDirty(e, d, ai, ok) ==
    IF ~e._isDirty THEN Outcome(e, d, ai, <<>>, FALSE, TRUE)
    ELSE IF e.ProjectID # NullID
    THEN LET q == <<Query("UPDATE", "Project", e.ProjectID)>>
         IN  IF ~ok THEN Outcome(e, d, ai, q, TRUE, FALSE)
             ELSE Outcome(e, Update(d, "Project", e.ProjectID, Project_row(e)),
                          ai, q, FALSE, TRUE)
    ELSE LET q == <<Query("INSERT", "Project", NullID)>>
         IN  IF ~ok THEN Outcome(e, d, ai, q, TRUE, FALSE)
             ELSE Outcome([e EXCEPT !.ProjectID = ai.Project],
                          Insert(d, "Project", ai.Project, Project_row(e)),
                          Bump(ai, "Project"), q, FALSE, TRUE)

\* A save() whose UPDATE writes the project's name only.
Project_save_NameOnly(e, d, ai, ok) ==
    IF e._isDirty /\ e.ProjectID # NullID /\ ok
    THEN Outcome([e EXCEPT !._isDirty = FALSE],
                 Update(d, "Project", e.ProjectID,
                        [ProjectName |-> e._projectName]),
                 ai, <<Query("UPDATE", "Project", e.ProjectID)>>, FALSE, TRUE)
    ELSE Project_save_KeepsDirty(e, d, ai, ok)

Project_save(e, d, ai, ok) ==
    IF ~e._isDirty THEN Outcome(e, d, ai, <<>>, FALSE, TRUE)
    ELSE IF e.ProjectID # NullID
    THEN LET q == <<Query("UPDATE", "Project", e.ProjectID)>>
         IN  IF ~ok THEN Outcome(e, d, ai, q, TRUE, FALSE)
             ELSE Outcome([e EXCEPT !._isDirty = FALSE],
                          Update(d, "Project", e.ProjectID, Project_row(e)),
                          ai, q, FALSE, TRUE)
    ELSE LET q == <<Query("INSERT", "Project", NullID)>>
         IN  IF ~ok THEN Outcome(e, d, ai, q, TRUE, FALSE)
             ELSE Outcome([e EXCEPT !.ProjectID = ai.Project, !._isDirty = FALSE],
                          Insert(d, "Project", ai.Project, Project_row(e)),
                          Bump(ai, "Project"), q, FALSE, TRUE)

\* The setters of Project and ProjectFile: `if (value === this._f) return;`
Setter(e, f, value) ==
    IF StrictEquals(value, e[f]) THEN e
    ELSE [e EXCEPT ![f] = value, !._isDirty = TRUE]

Project_set_OwningUserID(e, value) == Setter(e, "_owningUserID", value)

Project_set_ProjectName(e, value) == Setter(e, "_projectName", value)

Project_set_CreationDate(e, value) == Setter(e, "_creationDate", value)

-----------------------------------------------------------------------------
(* models/files_models.ts: class ProjectFile *)

ProjectFile_new(FileID, ProjectID, ParentDirectory, FileName, IsDirectory, CreationDate) ==
    [cls |-> "ProjectFile", FileID |-> FileID, _projectID |-> ProjectID,
     _parentDirectory |-> ParentDirectory, _fileName |-> FileName,
     _isDirectory |-> IsDirectory, _creationDate |-> CreationDate,
     _isDirty |-> FALSE]

\* A boolean bound to a TINYINT column is stored as 1 or 0.
BoolToTinyInt(b) == IF b THEN 1 ELSE 0

\* `!!IsDirectory` on the column read back
TinyIntToBool(n) == n # 0

ProjectFile_row(e) ==
    [ProjectID |-> e._projectID, ParentDirectory |-> e._parentDirectory,
     FileName |-> e._fileName, IsDirectory |-> BoolToTinyInt(e._isDirectory),
     CreationDate |-> e._creationDate.time]

ProjectFile_toJSON(e) ==
    [FileID |-> e.FileID, ProjectID |-> e._projectID,
     ParentDirectory |-> e._parentDirectory, FileName |-> e._fileName,
     IsDirectory |-> e._isDirectory, CreationDate |-> e._creationDate.time]

ProjectFile_find(FileID, d, ai, ok) ==
    LET q == <<Query("SELECT", "ProjectFiles", FileID)>>
    IN  IF ~ok THEN Outcome(Null, d, ai, q, FALSE, FALSE)
        ELSE IF ~Exists(d, "ProjectFiles", FileID)
        THEN Outcome(Null, d, ai, q, FALSE, FALSE)
        ELSE LET row == d.ProjectFiles[FileID]
             IN  Outcome(ProjectFile_new(FileID, row.ProjectID, row.ParentDirectory,
                                         row.FileName, TinyIntToBool(row.IsDirectory),
                                         Date(row.CreationDate, 0)),
                         d, ai, q, FALSE, TRUE)

ProjectFile_deleteById(id, d, at, ok) ==
    deleteById("ProjectFiles", id, d, at, ok)

\* A save() that clears the dirty flag before it writes.
ProjectFile_save_CleanFirst(e, d, ai, ok) ==
    IF ~e._isDirty THEN Outcome(e, d, ai, <<>>, FALSE, TRUE)
    ELSE IF e.FileID # NullID
    THEN LET q == <<Query("UPDATE", "ProjectFiles", e.FileID)>>
         IN  IF ~ok THEN Outcome([e EXCEPT !._isDirty = FALSE], d, ai, q, TRUE, FALSE)
             ELSE Outcome([e EXCEPT !._isDirty = FALSE],
                          Update(d, "ProjectFiles", e.FileID, ProjectFile_row(e)),
                          ai, q, FALSE, TRUE)
    ELSE LET q == <<Query("INSERT", "ProjectFiles", NullID)>>
         IN  IF ~ok THEN Outcome([e EXCEPT !._isDirty = FALSE], d, ai, q, TRUE, FALSE)
             ELSE Outcome([e EXCEPT !.FileID = ai.ProjectFiles, !._isDirty = FALSE],
                          Insert(d, "ProjectFiles", ai.ProjectFiles, ProjectFile_row(e)),
                          Bump(ai, "ProjectFiles"), q, FALSE, TRUE)

ProjectFile_save(e, d, ai, ok) ==
    IF ~e._isDirty THEN Outcome(e, d, ai, <<>>, FALSE, TRUE)
    ELSE IF e.FileID # NullID
    THEN LET q == <<Query("UPDATE", "ProjectFiles", e.FileID)>>
         IN  IF ~ok THEN Outcome(e, d, ai, q, TRUE, FALSE)
             ELSE Outcome([e EXCEPT !._isDirty = FALSE],
                          Update(d, "ProjectFiles", e.FileID, ProjectFile_row(e)),
                          ai, q, FALSE, TRUE)
    ELSE LET q == <<Query("INSERT", "ProjectFiles", NullID)>>
         IN  IF ~ok THEN Outcome(e, d, ai, q, TRUE, FALSE)
             ELSE Outcome([e EXCEPT !.FileID = ai.ProjectFiles, !._isDirty = FALSE],
                          Insert(d, "ProjectFiles", ai.ProjectFiles, ProjectFile_row(e)),
                          Bump(ai, "ProjectFiles"), q, FALSE, TRUE)

ProjectFile_set_ProjectID(e, value) == Setter(e, "_projectID", value)

ProjectFile_set_ParentDirectory(e, value) == Setter(e, "_parentDirectory", value)

ProjectFile_set_FileName(e, value) == Setter(e, "_fileName", value)

ProjectFile_set_IsDirectory(e, value) == Setter(e, "_isDirectory", value)

ProjectFile_set_CreationDate(e, value) == Setter(e, "_creationDate", value)

-----------------------------------------------------------------------------
(* models/user_models.ts: class ActiveToken *)

DefaultTTL == 3600

ActiveToken_new(TokenID, UserID, TTL, CreationDate) ==
    [cls |-> "ActiveToken", TokenID |-> TokenID, UserID |-> UserID,
     TTL |-> TTL, CreationDate |-> CreationDate]

ActiveToken_row(e) ==
    [user_id |-> e.UserID, ttl |-> e.TTL, create_date |-> e.CreationDate.time]

ActiveToken_toJSON(e) ==
    [TokenID |-> e.TokenID, UserID |-> e.UserID, TTL |-> e.TTL,
     CreationDate |-> e.CreationDate.time]

\* findById has no try/catch: a store error propagates.
ActiveToken_findById(TokenID, d, ai, ok) ==
    LET q == <<Query("SELECT", "active_tokens", TokenID)>>
    IN  IF ~ok THEN Outcome(Null, d, ai, q, TRUE, FALSE)
        ELSE IF ~Exists(d, "active_tokens", TokenID)
        THEN Outcome(Null, d, ai, q, FALSE, FALSE)
        ELSE LET row == d.active_tokens[TokenID]
             IN  Outcome(ActiveToken_new(TokenID, row.user_id, row.ttl,
                                         Date(row.create_date, 0)),
                         d, ai, q, FALSE, TRUE)

ActiveToken_save(e, d, ai, ok) ==
    IF e.TokenID # NullID
    THEN LET q == <<Query("UPDATE", "active_tokens", e.TokenID)>>
         IN  IF ~ok THEN Outcome(e, d, ai, q, TRUE, FALSE)
             ELSE Outcome(e, Update(d, "active_tokens", e.TokenID, ActiveToken_row(e)),
                          ai, q, FALSE, TRUE)
    ELSE LET q == <<Query("INSERT", "active_tokens", NullID)>>
         IN  IF ~ok THEN Outcome(e, d, ai, q, TRUE, FALSE)
             ELSE Outcome([e EXCEPT !.TokenID = ai.active_tokens],
                          Insert(d, "active_tokens", ai.active_tokens, ActiveToken_row(e)),
                          Bump(ai, "active_tokens"), q, FALSE, TRUE)

-----------------------------------------------------------------------------
(* JSON.stringify of an object literal and JSON.parse of its text. An      *)
(* object is the sequence of its properties in the order written; a value  *)
(* carries its type: "num", "str" (its characters), "bool", "null",        *)
(* "date" (its instant) or "undef".                                        *)

Pair(k, v) == [key |-> k, value |-> v]

Undefined == [t |-> "undef"]

\* An id of the model as a JSON value: null where the instance has none.
IdValue(n) == IF n = NullID THEN [t |-> "null"] ELSE [t |-> "num", v |-> n]

NumValue(n) == [t |-> "num", v |-> n]

StrValue(s) == [t |-> "str", v |-> s]

BoolValue(b) == [t |-> "bool", v |-> b]

DateValue(d) == [t |-> "date", v |-> d.time]

\* Date.prototype.toJSON: the instant as text. The text stands for the ISO
\* form; what matters is that it is a string the instant can be read from.
DateText(t) == toString(t) \o <<"Z">>

\* The characters of a string between its quotes: a quote and a backslash
\* are escaped with a backslash.
RECURSIVE JSON_escape(_)
JSON_escape(s) ==
    IF s = <<>> THEN <<>>
    ELSE (IF Head(s) \in {"\"", "\\"} THEN <<"\\", Head(s)>> ELSE <<Head(s)>>)
             \o JSON_escape(Tail(s))

JSON_quote(s) == <<"\"">> \o JSON_escape(s) \o <<"\"">>

JSON_value(v) ==
    CASE v.t = "num" -> toString(v.v)
      [] v.t = "str" -> JSON_quote(v.v)
      [] v.t = "bool" -> IF v.v THEN Str_true ELSE Str_false
      [] v.t = "null" -> Str_null
      [] v.t = "date" -> JSON_quote(DateText(v.v))

\* The members of an object: a property whose value is undefined is left
\* out.
RECURSIVE JSON_members(_)
JSON_members(pairs) ==
    IF pairs = <<>> THEN <<>>
    ELSE LET rest == JSON_members(Tail(pairs))
             p == Head(pairs)
         IN  IF p.value.t = "undef" THEN rest
             ELSE JSON_quote(p.key) \o <<":">> \o JSON_value(p.value)
                      \o (IF rest = <<>> THEN <<>> ELSE <<",">> \o rest)

JSON_stringify(pairs) == <<"{">> \o JSON_members(pairs) \o <<"}">>

\* A string from the character after its opening quote; next is the place
\* after its closing quote.
RECURSIVE JSON_scanString(_, _, _)
JSON_scanString(s, i, acc) ==
    IF s[i] = "\"" THEN [v |-> acc, next |-> i + 1]
    ELSE IF s[i] = "\\" THEN JSON_scanString(s, i + 2, Append(acc, s[i + 1]))
    ELSE JSON_scanString(s, i + 1, Append(acc, s[i]))

\* The place after the digits that start at i.
RECURSIVE JSON_numberEnd(_, _)
JSON_numberEnd(s, i) ==
    IF i > Len(s) \/ ~IsDigit(s[i]) THEN i ELSE JSON_numberEnd(s, i + 1)

\* The value that starts at place i. A date comes back as the string it
\* was written as.
JSON_parseValue(s, i) ==
    CASE s[i] = "\"" ->
            LET r == JSON_scanString(s, i + 1, <<>>)
            IN  [v |-> StrValue(r.v), next |-> r.next]
      [] s[i] = "t" -> [v |-> BoolValue(TRUE), next |-> i + Len(Str_true)]
      [] s[i] = "f" -> [v |-> BoolValue(FALSE), next |-> i + Len(Str_false)]
      [] s[i] = "n" -> [v |-> [t |-> "null"], next |-> i + Len(Str_null)]
      [] OTHER ->
            LET e == JSON_numberEnd(s, i)
            IN  [v |-> NumValue(parseInt(SubSeq(s, i, e - 1)).val), next |-> e]

\* The members from place i, which follows "{" or a member.
RECURSIVE JSON_parseMembers(_, _, _)
JSON_parseMembers(s, i, acc) ==
    IF i > Len(s) \/ s[i] = "}" THEN acc
    ELSE IF s[i] = "," THEN JSON_parseMembers(s, i + 1, acc)
    ELSE LET k == JSON_scanString(s, i + 1, <<>>)
             v == JSON_parseValue(s, k.next + 1)
         IN  JSON_parseMembers(s, v.next, Append(acc, Pair(k.v, v.v)))

JSON_parse(s) == JSON_parseMembers(s, 2, <<>>)

\* obj.k of a parsed object
Field(obj, k) ==
    IF \E i \in 1..Len(obj) : obj[i].key = k
    THEN obj[CHOOSE i \in 1..Len(obj) : obj[i].key = k].value
    ELSE Undefined

\* A parsed value as the constructor takes it: null and undefined ids are
\* the model's NullID; an undefined string is <<>>, which no string drawn
\* equals.
IdOf(v) == IF v.t = "num" THEN v.v ELSE NullID

StrOf(v) == IF v.t = "str" THEN v.v ELSE <<>>

BoolOf(v) == IF v.t = "bool" THEN v.v ELSE FALSE

\* new Date(text)
DateOf(v) == IF v.t = "str" THEN Date(parseInt(v.v).val, 1) ELSE Date(0, 1)

\* toJSON() of the four classes: the text JSON.stringify returns.
User_toJSON_text(e) ==
    JSON_stringify(<<Pair(Str_UserID, IdValue(e.UserID)),
                     Pair(Str_sub, StrValue(e.sub)),
                     Pair(Str_email, StrValue(e.email)),
                     Pair(Str_name, StrValue(e.name)),
                     Pair(Str_picture, StrValue(e.picture)),
                     Pair(Str_lastLogin, DateValue(e.lastLogin))>>)

ActiveToken_toJSON_text(e) ==
    JSON_stringify(<<Pair(Str_TokenID, IdValue(e.TokenID)),
                     Pair(Str_UserID, IdValue(e.UserID)),
                     Pair(Str_TTL, NumValue(e.TTL)),
                     Pair(Str_CreationDate, DateValue(e.CreationDate))>>)

Project_toJSON_text(e) ==
    JSON_stringify(<<Pair(Str_ProjectID, IdValue(e.ProjectID)),
                     Pair(Str_OwningUserID, IdValue(e._owningUserID)),
                     Pair(Str_ProjectName, StrValue(e._projectName)),
                     Pair(Str_CreationDate, DateValue(e._creationDate))>>)

\* toJSON() that writes the project id where the parent directory belongs.
ProjectFile_toJSON_text_WrongParent(e) ==
    JSON_stringify(<<Pair(Str_FileID, IdValue(e.FileID)),
                     Pair(Str_ProjectID, IdValue(e._projectID)),
                     Pair(Str_ParentDirectory, IdValue(e._projectID)),
                     Pair(Str_FileName, StrValue(e._fileName)),
                     Pair(Str_IsDirectory, BoolValue(e._isDirectory)),
                     Pair(Str_CreationDate, DateValue(e._creationDate))>>)

ProjectFile_toJSON_text(e) ==
    JSON_stringify(<<Pair(Str_FileID, IdValue(e.FileID)),
                     Pair(Str_ProjectID, IdValue(e._projectID)),
                     Pair(Str_ParentDirectory, IdValue(e._parentDirectory)),
                     Pair(Str_FileName, StrValue(e._fileName)),
                     Pair(Str_IsDirectory, BoolValue(e._isDirectory)),
                     Pair(Str_CreationDate, DateValue(e._creationDate))>>)

\* An instance constructed from the fields of a parsed object.
User_fromObject(o) ==
    User_new(IdOf(Field(o, Str_UserID)), StrOf(Field(o, Str_sub)),
             StrOf(Field(o, Str_email)), StrOf(Field(o, Str_name)),
             StrOf(Field(o, Str_picture)), DateOf(Field(o, Str_lastLogin)))

ActiveToken_fromObject(o) ==
    ActiveToken_new(IdOf(Field(o, Str_TokenID)), IdOf(Field(o, Str_UserID)),
                    IdOf(Field(o, Str_TTL)), DateOf(Field(o, Str_CreationDate)))

Project_fromObject(o) ==
    Project_new(IdOf(Field(o, Str_ProjectID)), IdOf(Field(o, Str_OwningUserID)),
                StrOf(Field(o, Str_ProjectName)),
                DateOf(Field(o, Str_CreationDate)))

ProjectFile_fromObject(o) ==
    ProjectFile_new(IdOf(Field(o, Str_FileID)), IdOf(Field(o, Str_ProjectID)),
                    IdOf(Field(o, Str_ParentDirectory)),
                    StrOf(Field(o, Str_FileName)),
                    BoolOf(Field(o, Str_IsDirectory)),
                    DateOf(Field(o, Str_CreationDate)))

-----------------------------------------------------------------------------
(* findAll of the four classes: a SELECT COUNT and then a SELECT with the   *)
(* same WHERE clauses and LIMIT ? OFFSET ?, one store query at a time: at  *)
(* "count" the first, at "select" the second. Every findAll catches what   *)
(* the store throws, logs it and throws it again.                          *)

Min(a, b) == IF a <= b THEN a ELSE b

\* findAll called with no filters.
NoFilters == <<>>

\* column LIKE '%v%'. A name in the store is one character long.
Like(name, v) == IndexOf(<<name>>, v, 1) # 0

\* WHERE 1=1 AND ...: the ids of the rows of t that satisfy the clauses
\* findAll builds from the filters it was given.
Where(t, d, filters) ==
    {i \in DOMAIN d[t] :
        LET row == d[t][i]
            has(k) == k \in DOMAIN filters
        IN  /\ has("UserName") => Like(row.name, filters.UserName)
            /\ has("ProjectName") => Like(row.ProjectName, filters.ProjectName)
            /\ has("OwningUserID") => row.OwningUserID = filters.OwningUserID
            /\ has("ProjectID") => row.ProjectID = filters.ProjectID
            /\ has("FileName") => Like(row.FileName, filters.FileName)
            /\ has("IsDirectory") =>
                   row.IsDirectory = BoolToTinyInt(filters.IsDirectory)}

\* The order in which the store compares names.
Alphabet == <<"a", "b", "c", "d", "e">>

NameRank(n) == CHOOSE k \in 1..Len(Alphabet) : Alphabet[k] = n

\* The columns of t an ORDER BY can name.
Columns(t) ==
    CASE t = "Project" -> {Str_ProjectID, Str_OwningUserID, Str_ProjectName,
                           Str_CreationDate}
      [] t = "ProjectFiles" -> {Str_FileID, Str_FileName, Str_CreationDate}
      [] OTHER -> {}

\* The store answers a SELECT whose ORDER BY clause, if it has one, names a
\* column and a direction; it rejects any other text in that place.
Sortable(t, sort, order) ==
    sort = <<>> \/ (sort \in Columns(t) /\ order \in {Str_asc, Str_desc})

\* What ORDER BY compares of row i.
SortKey(t, d, sort, i) ==
    CASE sort = Str_ProjectName -> NameRank(d[t][i].ProjectName)
      [] sort = Str_FileName -> NameRank(d[t][i].FileName)
      [] sort = Str_OwningUserID -> d[t][i].OwningUserID
      [] sort = Str_CreationDate -> d[t][i].CreationDate
      [] OTHER -> i

\* ORDER BY sort order over the rows S: rows that compare equal, and the
\* rows of a SELECT without ORDER BY, come in the order of their ids.
RECURSIVE OrderBy(_, _, _, _, _)
OrderBy(t, d, sort, order, S) ==
    IF S = {} THEN <<>>
    ELSE LET before(i, j) ==
                 LET ki == SortKey(t, d, sort, i)
                     kj == SortKey(t, d, sort, j)
                 IN  IF ki = kj THEN i < j
                     ELSE IF order = Str_desc THEN ki > kj ELSE ki < kj
             first == CHOOSE i \in S : \A j \in S \ {i} : before(i, j)
         IN  <<first>> \o OrderBy(t, d, sort, order, S \ {first})

\* LIMIT ? with the OFFSET left out of the query.
Limit_IgnoresOffset(s, limit, offset) == SubSeq(s, 1, Min(Len(s), limit))

\* LIMIT ? OFFSET ?
Limit(s, limit, offset) == SubSeq(s, offset + 1, Min(Len(s), offset + limit))

\* The SELECT of findAll as the store receives it.
OrderedQuery(t, sort, order) ==
    [sql |-> "SELECT", table |-> t, id |-> NullID, sort |-> sort, order |-> order]

\* The two queries over table t. rows are the ids of the rows selected.
findAll(t, opts, d, at, ok) ==
    IF at = "count"
    THEN [queries |-> <<Query("COUNT", t, NullID)>>, threw |-> ~ok,
          total |-> IF ok THEN Cardinality(Where(t, d, opts.filters)) ELSE 0,
          rows |-> <<>>]
    ELSE LET answered == ok /\ Sortable(t, opts.sort, opts.order)
         IN  [queries |-> <<OrderedQuery(t, opts.sort, opts.order)>>,
              threw |-> ~answered, total |-> 0,
              rows |-> IF answered
                       THEN Limit(OrderBy(t, d, opts.sort, opts.order,
                                          Where(t, d, opts.filters)),
                                  opts.limit, opts.offset)
                       ELSE <<>>]

\* rows.map((row) => new ...): the result of findAll with the instances
\* made of the rows.
Found(out, items) ==
    [queries |-> out.queries, threw |-> out.threw, total |-> out.total,
     items |-> items]

User_make(d, i) ==
    LET row == UserRowObject(d, i)
    IN  User_new(row.user_id, row.sub, row.email, row.name, row.picture,
                 Date(row.lastLogin, 0))

User_findAll(opts, d, at, ok) ==
    LET out == findAll("users",
                       [limit |-> opts.limit, offset |-> opts.offset,
                        filters |-> opts.filters, sort |-> <<>>, order |-> <<>>],
                       d, at, ok)
    IN  Found(out, [k \in 1..Len(out.rows) |-> User_make(d, out.rows[k])])

ActiveToken_make(d, i) ==
    ActiveToken_new(i, d.active_tokens[i].user_id, d.active_tokens[i].ttl,
                    Date(d.active_tokens[i].create_date, 0))

ActiveToken_findAll(limit, offset, d, at, ok) ==
    LET out == findAll("active_tokens",
                       [limit |-> limit, offset |-> offset, filters |-> NoFilters,
                        sort |-> <<>>, order |-> <<>>],
                       d, at, ok)
    IN  Found(out, [k \in 1..Len(out.rows) |-> ActiveToken_make(d, out.rows[k])])

Project_make(d, i) ==
    Project_new(i, d.Project[i].OwningUserID, d.Project[i].ProjectName,
                Date(d.Project[i].CreationDate, 0))

\* findAll(limit, offset) of the class as routes/project.ts calls it.
Project_findAll_paged(limit, offset, d, at, ok) ==
    LET out == findAll("Project",
                       [limit |-> limit, offset |-> offset, filters |-> NoFilters,
                        sort |-> <<>>, order |-> <<>>],
                       d, at, ok)
    IN  Found(out, [k \in 1..Len(out.rows) |-> Project_make(d, out.rows[k])])

\* findAll(options): sort and order go into the text of the SELECT as they
\* come.
Project_findAll(opts, d, at, ok) ==
    LET out == findAll("Project", opts, d, at, ok)
    IN  Found(out, [k \in 1..Len(out.rows) |-> Project_make(d, out.rows[k])])

ProjectFile_make(d, i) ==
    LET row == d.ProjectFiles[i]
    IN  ProjectFile_new(i, row.ProjectID, row.ParentDirectory, row.FileName,
                        TinyIntToBool(row.IsDirectory), Date(row.CreationDate, 0))

\* findAll(options): sort and order are checked against the allow-lists
\* before any query is built, and a value outside them is thrown.
ProjectFile_findAll(opts, d, at, ok) ==
    IF \/ opts.sort \notin {Str_FileID, Str_FileName, Str_CreationDate}
       \/ opts.order \notin {Str_asc, Str_desc}
    THEN [queries |-> <<>>, threw |-> TRUE, total |-> 0, items |-> <<>>]
    ELSE LET out == findAll("ProjectFiles", opts, d, at, ok)
         IN  Found(out, [k \in 1..Len(out.rows) |->
                            ProjectFile_make(d, out.rows[k])])

-----------------------------------------------------------------------------
(* States of the store the service can find itself started on: each table  *)
(* is empty or holds one row with id 1.                                    *)

UserIds == 1..MaxUser

TTLs == {DefaultTTL, 1}

FirstRow(t) ==
    CASE t = "users" ->
            [sub |-> "a", email |-> "a", name |-> "a", picture |-> "a",
             lastLogin |-> 0]
      [] t = "active_tokens" -> [user_id |-> 1, ttl |-> DefaultTTL, create_date |-> 0]
      [] t = "Project" -> [OwningUserID |-> 1, ProjectName |-> "a", CreationDate |-> 0]
      [] t = "ProjectFiles" ->
            [ProjectID |-> 1, ParentDirectory |-> NullID, FileName |-> "a",
             IsDirectory |-> 0, CreationDate |-> 0]

InitDb(S) == [t \in Tables |-> IF t \in S THEN [i \in {1} |-> FirstRow(t)] ELSE EmptyTable]

InitAutoinc(S) == [t \in Tables |-> IF t \in S THEN 2 ELSE 1]

StoreIdle ==
    /\ db = InitDb({})
    /\ autoinc = InitAutoinc({})
    /\ now = 0

NoCall == [op |-> "none", field |-> "", value |-> Null, threw |-> FALSE,
           afterSave |-> FALSE]

EntityIdle ==
    /\ ent = Null
    /\ call = NoCall
    /\ pre = Null
    /\ queries = <<>>
    /\ synced = FALSE

ListIdle ==
    /\ route = "users"
    /\ query = <<>>
    /\ total = 0
    /\ pagination = Null
    /\ links = Null
    /\ lpc = "idle"

\* The requests the server handles at a time.
Reqs == {"r1", "r2"}

\* A slot no request has arrived on. raw is req.params.id and id what
\* parseInt made of it; query is req.query; inst is the handler's local instance (or the data it
\* passes to createOrUpdate) and uid the UserID createOrUpdate read from the
\* row it looked up; db0 and db1 are the store as the
\* handler found it and as it was when the response went out; alone says
\* that no other request changed the store in between; failed, that the
\* store failed one of the request's queries.
IdleReq ==
    [pc |-> "idle", method |-> "", route |-> "", id |-> NullID, body |-> Null,
     raw |-> <<>>, query |-> <<>>, uid |-> NullID, inst |-> Null, status |-> 0,
     location |-> NullID, json |-> Null,
     qs |-> <<>>, failed |-> FALSE, alone |-> TRUE, db0 |-> Null, db1 |-> Null]

ReqIdle == reqs = [r \in Reqs |-> IdleReq]

-----------------------------------------------------------------------------
(* db.ts: the one pool every class sends its queries through, created by   *)
(* mysql.createPool with the options below. What the pool does with them   *)
(* is the library's: a query takes a free connection, or opens one while   *)
(* fewer than connectionLimit are open, or else waits in the queue; with   *)
(* queueLimit > 0 a query that finds queueLimit queries waiting is         *)
(* rejected at once (queueLimit 0 means no limit); a connection released   *)
(* goes to the first waiting query, if there is one.                       *)

waitForConnections == TRUE

connectionLimit == 50

queueLimit == 10

\* No connection opened yet, no query issued.
NewPool == [opened |-> 0, inUse |-> 0, queued |-> 0, last |-> "none", full |-> FALSE]

PoolIdle == pool = NewPool

\* Every connection is in use and the queue holds queueLimit queries.
PoolFull(p) == p.inUse = connectionLimit /\ p.queued = queueLimit

\* pool.query on a pool created with queueLimit: 0.
Pool_query_NoQueueLimit(p) ==
    LET q == [p EXCEPT !.full = PoolFull(p)]
    IN  IF p.inUse < p.opened
        THEN [q EXCEPT !.inUse = @ + 1, !.last = "run"]
        ELSE IF p.opened < connectionLimit
        THEN [q EXCEPT !.opened = @ + 1, !.inUse = @ + 1, !.last = "run"]
        ELSE IF ~waitForConnections
        THEN [q EXCEPT !.last = "error"]
        ELSE [q EXCEPT !.queued = @ + 1, !.last = "queued"]

\* pool.query: what becomes of a query issued on pool p. full records
\* whether the query found the pool full.
Pool_query(p) ==
    LET q == [p EXCEPT !.full = PoolFull(p)]
    IN  IF p.inUse < p.opened
        THEN [q EXCEPT !.inUse = @ + 1, !.last = "run"]
        ELSE IF p.opened < connectionLimit
        THEN [q EXCEPT !.opened = @ + 1, !.inUse = @ + 1, !.last = "run"]
        ELSE IF ~waitForConnections
        THEN [q EXCEPT !.last = "error"]
        ELSE IF queueLimit > 0 /\ p.queued >= queueLimit
        THEN [q EXCEPT !.last = "error"]
        ELSE [q EXCEPT !.queued = @ + 1, !.last = "queued"]

\* A query that held a connection is answered: the connection goes to the
\* first query waiting, or back to the pool.
Pool_release(p) ==
    IF p.queued > 0
    THEN [p EXCEPT !.queued = @ - 1, !.last = "none", !.full = FALSE]
    ELSE [p EXCEPT !.inUse = @ - 1, !.last = "none", !.full = FALSE]

-----------------------------------------------------------------------------
(* SpecEntity: a caller constructs or loads one instance and then calls    *)
(* its setters and save() in any order, any number of times.               *)

InitEntity ==
    /\ \E S \in {{}, Tables} :
          /\ db = InitDb(S)
          /\ autoinc = InitAutoinc(S)
    /\ now = 0
    /\ EntityIdle
    /\ ListIdle
    /\ ReqIdle
    /\ PoolIdle

Snapshot == [ent |-> ent, db |-> db, autoinc |-> autoinc, synced |-> synced]

Called(op, f, v, threw) ==
    [op |-> op, field |-> f, value |-> v, threw |-> threw,
     afterSave |-> call.op = "save" /\ ~call.threw]

\* The constructor, as the POST routes call it.
Construct(e) ==
    /\ call.op = "none"
    /\ ent' = e
    /\ call' = Called("new", "", Null, FALSE)
    /\ pre' = Snapshot
    /\ queries' = <<>>
    /\ synced' = FALSE
    /\ UNCHANGED <<db, autoinc, now>>

E_NewProject ==
    \E o \in UserIds, n \in Names :
        Construct(Project_new(NullID, o, n, Date(now, 0)))

E_NewProjectFile ==
    \E pid \in {1, 2}, parent \in {NullID, 1}, n \in Names, dir \in BOOLEAN :
        Construct(ProjectFile_new(NullID, pid, parent, n, dir, Date(now, 0)))

E_NewActiveToken ==
    \E u \in UserIds, ttl \in TTLs :
        Construct(ActiveToken_new(NullID, u, ttl, Date(now, 0)))

\* A static find: the instance is the one it returns (Null for null).
Load(out) ==
    /\ call.op = "none"
    /\ ent' = out.ent
    /\ call' = Called("find", "", Null, out.threw)
    /\ pre' = Snapshot
    /\ queries' = out.queries
    /\ synced' = (out.ent # Null)
    /\ UNCHANGED <<db, autoinc, now>>

E_FindProject == \E id \in Ids, ok \in BOOLEAN : Load(Project_find(id, db, autoinc, ok))

E_FindProjectFile ==
    \E id \in Ids, ok \in BOOLEAN : Load(ProjectFile_find(id, db, autoinc, ok))

E_FindActiveToken ==
    \E id \in Ids, ok \in BOOLEAN : Load(ActiveToken_findById(id, db, autoinc, ok))

\* Equality of two values of a field as values: two Dates are equal when
\* they denote the same instant.
IsDateField(f) == f \in {"_creationDate", "CreationDate"}

ValueEquals(f, a, b) == IF IsDateField(f) THEN a.time = b.time ELSE a = b

\* The Dates a caller can hand over: the object the instance holds, or
\* another object, for the same instant or another one.
DatesFor(held) == {held} \cup {OtherDate(t, held) : t \in {0, 1}}

Mutate(op, f, value, e) ==
    /\ ent' = e
    /\ call' = Called(op, f, value, FALSE)
    /\ pre' = Snapshot
    /\ queries' = <<>>
    /\ synced' = (synced /\ ValueEquals(f, value, ent[f]))
    /\ UNCHANGED <<db, autoinc, now>>

IsA(cls) == ent # Null /\ ent.cls = cls

E_Project_set_OwningUserID ==
    /\ IsA("Project")
    /\ \E v \in UserIds : Mutate("set", "_owningUserID", v, Project_set_OwningUserID(ent, v))

E_Project_set_ProjectName ==
    /\ IsA("Project")
    /\ \E v \in Names : Mutate("set", "_projectName", v, Project_set_ProjectName(ent, v))

E_Project_set_CreationDate ==
    /\ IsA("Project")
    /\ \E v \in DatesFor(ent._creationDate) :
          Mutate("set", "_creationDate", v, Project_set_CreationDate(ent, v))

E_ProjectFile_set_ProjectID ==
    /\ IsA("ProjectFile")
    /\ \E v \in {1, 2} : Mutate("set", "_projectID", v, ProjectFile_set_ProjectID(ent, v))

E_ProjectFile_set_ParentDirectory ==
    /\ IsA("ProjectFile")
    /\ \E v \in {NullID, 1} :
          Mutate("set", "_parentDirectory", v, ProjectFile_set_ParentDirectory(ent, v))

E_ProjectFile_set_FileName ==
    /\ IsA("ProjectFile")
    /\ \E v \in Names : Mutate("set", "_fileName", v, ProjectFile_set_FileName(ent, v))

E_ProjectFile_set_IsDirectory ==
    /\ IsA("ProjectFile")
    /\ \E v \in BOOLEAN :
          Mutate("set", "_isDirectory", v, ProjectFile_set_IsDirectory(ent, v))

E_ProjectFile_set_CreationDate ==
    /\ IsA("ProjectFile")
    /\ \E v \in DatesFor(ent._creationDate) :
          Mutate("set", "_creationDate", v, ProjectFile_set_CreationDate(ent, v))

\* ActiveToken has public fields: the routes assign them directly.
E_ActiveToken_assign ==
    /\ IsA("ActiveToken")
    /\ \/ \E v \in UserIds : Mutate("assign", "UserID", v, [ent EXCEPT !.UserID = v])
       \/ \E v \in TTLs : Mutate("assign", "TTL", v, [ent EXCEPT !.TTL = v])
       \/ \E v \in DatesFor(ent.CreationDate) :
             Mutate("assign", "CreationDate", v, [ent EXCEPT !.CreationDate = v])

Saved(out) ==
    /\ \A t \in Tables : out.autoinc[t] <= MaxId + 1
    /\ ent' = out.ent
    /\ db' = out.db
    /\ autoinc' = out.autoinc
    /\ call' = Called("save", "", Null, out.threw)
    /\ pre' = Snapshot
    /\ queries' = out.queries
    /\ synced' = (IF out.threw THEN synced ELSE TRUE)
    /\ UNCHANGED now

E_Project_save ==
    /\ IsA("Project")
    /\ \E ok \in BOOLEAN : Saved(Project_save(ent, db, autoinc, ok))

E_ProjectFile_save ==
    /\ IsA("ProjectFile")
    /\ \E ok \in BOOLEAN : Saved(ProjectFile_save(ent, db, autoinc, ok))

E_ActiveToken_save ==
    /\ IsA("ActiveToken")
    /\ \E ok \in BOOLEAN : Saved(ActiveToken_save(ent, db, autoinc, ok))

\* The clock advances between requests: it is coarser than a handler's run.
Tick ==
    /\ now < MaxNow
    /\ \A r \in DOMAIN reqs : reqs[r].pc \in {"idle", "done"}
    /\ now' = now + 1
    /\ UNCHANGED <<db, autoinc>>

NextEntity ==
    \/ E_NewProject /\ UNCHANGED <<listVars, reqs, pool>>
    \/ E_NewProjectFile /\ UNCHANGED <<listVars, reqs, pool>>
    \/ E_NewActiveToken /\ UNCHANGED <<listVars, reqs, pool>>
    \/ E_FindProject /\ UNCHANGED <<listVars, reqs, pool>>
    \/ E_FindProjectFile /\ UNCHANGED <<listVars, reqs, pool>>
    \/ E_FindActiveToken /\ UNCHANGED <<listVars, reqs, pool>>
    \/ E_Project_set_OwningUserID /\ UNCHANGED <<listVars, reqs, pool>>
    \/ E_Project_set_ProjectName /\ UNCHANGED <<listVars, reqs, pool>>
    \/ E_Project_set_CreationDate /\ UNCHANGED <<listVars, reqs, pool>>
    \/ E_ProjectFile_set_ProjectID /\ UNCHANGED <<listVars, reqs, pool>>
    \/ E_ProjectFile_set_ParentDirectory /\ UNCHANGED <<listVars, reqs, pool>>
    \/ E_ProjectFile_set_FileName /\ UNCHANGED <<listVars, reqs, pool>>
    \/ E_ProjectFile_set_IsDirectory /\ UNCHANGED <<listVars, reqs, pool>>
    \/ E_ProjectFile_set_CreationDate /\ UNCHANGED <<listVars, reqs, pool>>
    \/ E_ActiveToken_assign /\ UNCHANGED <<listVars, reqs, pool>>
    \/ E_Project_save /\ UNCHANGED <<listVars, reqs, pool>>
    \/ E_ProjectFile_save /\ UNCHANGED <<listVars, reqs, pool>>
    \/ E_ActiveToken_save /\ UNCHANGED <<listVars, reqs, pool>>

SpecEntity == InitEntity /\ [][NextEntity]_vars

-----------------------------------------------------------------------------
(* SpecList: a list request goes through paginate, then its route builds   *)
(* the links from the total that findAll returned.                         *)

ListRoutes == {"users", "user_tokens", "projects", "projects_sorted", "project_files"}

\* Raw values a client can send for limit and offset.
Junk == {<<"a">>, <<"2", "a">>}
LimitRaws == {toString(n) : n \in -1..MaxLimitRaw} \cup Junk
OffsetRaws == {toString(n) : n \in -1..MaxOffsetRaw} \cup Junk

\* limit and offset in the query: each absent or present, in either order.
CoreQueries ==
    {<<>>}
    \cup {<<Param(Str_limit, l)>> : l \in LimitRaws}
    \cup {<<Param(Str_offset, o)>> : o \in OffsetRaws}
    \cup {<<Param(Str_limit, l), Param(Str_offset, o)>> :
             l \in LimitRaws, o \in OffsetRaws}
    \cup {<<Param(Str_offset, o), Param(Str_limit, l)>> :
             l \in LimitRaws, o \in OffsetRaws}

\* Other query parameters of the request.
ExtraParams ==
    {Param(Str_q, <<"x">>)} \cup {Param(Str_xoffset, toString(n)) : n \in 0..1}

Queries ==
    CoreQueries
    \cup {<<e>> \o c : e \in ExtraParams, c \in CoreQueries}
    \cup {c \o <<e>> : e \in ExtraParams, c \in CoreQueries}

InitList ==
    /\ route \in ListRoutes
    /\ query \in Queries
    /\ total \in 0..MaxTotal
    /\ pagination = Null
    /\ links = Null
    /\ lpc = "paginate"
    /\ StoreIdle
    /\ EntityIdle
    /\ ReqIdle
    /\ PoolIdle

Paginate ==
    /\ lpc = "paginate"
    /\ pagination' = paginate(query)
    /\ lpc' = "handler"
    /\ UNCHANGED <<route, query, total, links>>

\* routes/users.ts GET /
ListUsers ==
    /\ lpc = "handler" /\ route = "users"
    /\ links' = InlineLinks(total, pagination.limit, pagination.offset)
    /\ lpc' = "done"
    /\ UNCHANGED <<route, query, total, pagination>>

\* routes/user_tokens.ts GET / (the variant with the list route)
ListUserTokens ==
    /\ lpc = "handler" /\ route = "user_tokens"
    /\ links' = generateHATEOASLinks(query, total, pagination.limit, pagination.offset)
    /\ lpc' = "done"
    /\ UNCHANGED <<route, query, total, pagination>>

\* routes/project.ts GET /
ListProjects ==
    /\ lpc = "handler" /\ route = "projects"
    /\ links' = InlineLinks(total, pagination.limit, pagination.offset)
    /\ lpc' = "done"
    /\ UNCHANGED <<route, query, total, pagination>>

\* routes/project.ts GET / (the variant with filters, sort and order)
ListProjectsSorted ==
    /\ lpc = "handler" /\ route = "projects_sorted"
    /\ links' = ReplaceLinks(query, total, pagination.limit, pagination.offset)
    /\ lpc' = "done"
    /\ UNCHANGED <<route, query, total, pagination>>

\* routes/project_files.ts GET /
ListProjectFiles ==
    /\ lpc = "handler" /\ route = "project_files"
    /\ links' = ReplaceLinks(query, total, pagination.limit, pagination.offset)
    /\ lpc' = "done"
    /\ UNCHANGED <<route, query, total, pagination>>

NextList ==
    \/ Paginate /\ UNCHANGED <<storeVars, entityVars, reqs, pool>>
    \/ ListUsers /\ UNCHANGED <<storeVars, entityVars, reqs, pool>>
    \/ ListUserTokens /\ UNCHANGED <<storeVars, entityVars, reqs, pool>>
    \/ ListProjects /\ UNCHANGED <<storeVars, entityVars, reqs, pool>>
    \/ ListProjectsSorted /\ UNCHANGED <<storeVars, entityVars, reqs, pool>>
    \/ ListProjectFiles /\ UNCHANGED <<storeVars, entityVars, reqs, pool>>

SpecList == InitList /\ [][NextList]_vars

-----------------------------------------------------------------------------
(* Spec: the route handlers. A handler runs from one store query to the    *)
(* next in one step; the handlers of the requests in flight interleave at  *)
(* their queries.                                                          *)

Restrict(f, D) == [k \in D |-> f[k]]

\* req.body of POST /projects: each field present or not.
ProjectBodies ==
    {Restrict(b, D) :
        b \in [OwningUserID : UserIds, ProjectName : Names],
        D \in SUBSET {"OwningUserID", "ProjectName"}}

\* req.body of POST /project_files.
ProjectFileBodies ==
    {Restrict(b, D) :
        b \in [ProjectID : {1}, ParentDirectory : {1}, FileName : {"a"},
               IsDirectory : BOOLEAN],
        D \in SUBSET {"ProjectID", "ParentDirectory", "FileName", "IsDirectory"}}

\* req.params.id
IdRaws == {toString(i) : i \in Ids} \cup {<<"x">>, <<"1", "a">>}

Init ==
    /\ \E S \in {{}, Tables} :
          /\ db = InitDb(S)
          /\ autoinc = InitAutoinc(S)
    /\ now = 0
    /\ ReqIdle
    /\ PoolIdle
    /\ EntityIdle
    /\ ListIdle

Arrived(method, rt) ==
    [IdleReq EXCEPT !.pc = "run", !.method = method, !.route = rt, !.db0 = db]

InFlight(q) == q.pc \notin {"idle", "done"}

\* A request can arrive on slot r. The slots are interchangeable, so they
\* are taken in order.
Free(r) ==
    /\ reqs[r].pc = "idle"
    /\ r = "r2" => reqs["r1"].pc # "idle"

\* The table a router works on. The repository holds two routers for
\* /projects: routes/project.ts and the one that takes sort and order.
RouteTable(rt) ==
    CASE rt \in {"users", "auth"} -> "users"
      [] rt \in {"user_tokens", "user_tokens_replacing"} -> "active_tokens"
      [] rt \in {"projects", "projects_sorted"} -> "Project"
      [] rt \in {"project_files", "project_files_unguarded"} -> "ProjectFiles"

\* The routers work on disjoint tables, so requests to different routers
\* do not affect each other: the requests of a behaviour go to one table.
SameRouter(r, rt) ==
    \A x \in Reqs \ {r} :
        IF reqs[x].pc = "idle" THEN TRUE
        ELSE RouteTable(reqs[x].route) = RouteTable(rt)

\* Request r moves to rec; the other requests in flight see whether the
\* store changed under them.
Step(r, rec) ==
    reqs' = [x \in Reqs |->
                IF x = r THEN rec
                ELSE IF InFlight(reqs[x]) /\ db' # db
                THEN [reqs[x] EXCEPT !.alone = FALSE]
                ELSE reqs[x]]

\* res.status(status)...: the response goes out.
Respond(q, status, location, json) ==
    [q EXCEPT !.pc = "done", !.status = status, !.location = location,
              !.json = json, !.db1 = db']

\* The queries a call issued join the request's; ok is whether the store
\* answered them.
Issued(q, out, ok) ==
    [q EXCEPT !.qs = @ \o out.queries,
              !.failed = @ \/ (out.queries # <<>> /\ ~ok)]

\* routes/project.ts POST /
PostProject(r) ==
    /\ Free(r)
    /\ SameRouter(r, "projects")
    /\ \E body \in ProjectBodies, ok \in BOOLEAN :
          LET q == [Arrived("POST", "projects") EXCEPT !.body = body]
          IN  IF ~({"OwningUserID", "ProjectName"} \subseteq DOMAIN body)
              THEN /\ UNCHANGED <<db, autoinc>>
                   /\ Step(r, Respond(q, 400, NullID, Null))
              ELSE LET newProject == Project_new(NullID, body.OwningUserID,
                                                 body.ProjectName, Date(now, 0))
                       out == Project_save(newProject, db, autoinc, ok)
                   IN  /\ db' = out.db
                       /\ autoinc' = out.autoinc
                       /\ Step(r, IF out.threw
                                  THEN Respond(Issued(q, out, ok), 500, NullID, Null)
                                  ELSE Respond(Issued(q, out, ok), 201, out.ent.ProjectID,
                                               Project_toJSON(out.ent)))
    /\ UNCHANGED now

\* routes/project_files.ts POST /
PostProjectFile(r) ==
    /\ Free(r)
    /\ SameRouter(r, "project_files")
    /\ \E body \in ProjectFileBodies, ok \in BOOLEAN :
          LET q == [Arrived("POST", "project_files") EXCEPT !.body = body]
          IN  IF ~({"ProjectID", "FileName", "IsDirectory"} \subseteq DOMAIN body)
              THEN /\ UNCHANGED <<db, autoinc>>
                   /\ Step(r, Respond(q, 400, NullID, Null))
              ELSE LET newFile ==
                           ProjectFile_new(NullID, body.ProjectID,
                               IF "ParentDirectory" \in DOMAIN body
                               THEN body.ParentDirectory ELSE NullID,
                               body.FileName, body.IsDirectory, Date(now, 0))
                       out == ProjectFile_save(newFile, db, autoinc, ok)
                   IN  /\ db' = out.db
                       /\ autoinc' = out.autoinc
                       /\ Step(r, IF out.threw
                                  THEN Respond(Issued(q, out, ok), 500, NullID, Null)
                                  ELSE Respond(Issued(q, out, ok), 201, out.ent.FileID,
                                               ProjectFile_toJSON(out.ent)))
    /\ UNCHANGED now

DeleteRoutes == {"users", "projects", "project_files"}

RouteDeleteById(rt, id, d, at, ok) ==
    CASE rt = "users" -> User_deleteById(id, d, at, ok)
      [] rt = "projects" -> Project_deleteById(id, d, at, ok)
      [] rt = "project_files" -> ProjectFile_deleteById(id, d, at, ok)

\* What the DELETE handlers answer once deleteById has returned.
Deleted(q, out) ==
    LET q1 == [q EXCEPT !.qs = Append(@, out.q)]
    IN  CASE out.ret = "true" -> Respond(q1, 204, NullID, Null)
          [] out.ret = "false" -> Respond(q1, 404, NullID, Null)
          [] out.ret = "await" -> [q1 EXCEPT !.pc = "delete"]

\* routes/users.ts, project.ts, project_files.ts DELETE /:id, up to the
\* SELECT of deleteById.
DeleteBegin(r) ==
    /\ Free(r)
    /\ \E rt \in DeleteRoutes, raw \in IdRaws, ok \in BOOLEAN :
          LET id == parseInt(raw)
              q == [Arrived("DELETE", rt) EXCEPT !.raw = raw]
          IN  /\ SameRouter(r, rt)
              /\ UNCHANGED <<db, autoinc, now>>
              /\ IF id.nan
                 THEN Step(r, Respond(q, 400, NullID, Null))
                 ELSE Step(r, Deleted([q EXCEPT !.id = id.val, !.failed = ~ok],
                                      RouteDeleteById(rt, id.val, db, "select", ok)))

\* ... and from the DELETE of deleteById to the response.
DeleteResume(r) ==
    /\ reqs[r].pc = "delete"
    /\ \E ok \in BOOLEAN :
          LET q == reqs[r]
              out == RouteDeleteById(q.route, q.id, db, "delete", ok)
          IN  /\ db' = out.db
              /\ UNCHANGED <<autoinc, now>>
              /\ Step(r, Deleted([q EXCEPT !.failed = ~ok], out))

ItemRoutes == {"users", "user_tokens", "projects", "project_files"}

RouteFind(rt, id, d, ai, ok) ==
    CASE rt = "users" -> User_findById(id, d, ai, ok)
      [] rt = "user_tokens" -> ActiveToken_findById(id, d, ai, ok)
      [] rt = "projects" -> Project_find(id, d, ai, ok)
      [] rt = "project_files" -> ProjectFile_find(id, d, ai, ok)

RouteToJSON(rt, e) ==
    CASE rt = "users" -> User_toJSON(e)
      [] rt = "user_tokens" -> ActiveToken_toJSON(e)
      [] rt \in {"projects", "projects_sorted"} -> Project_toJSON(e)
      [] rt = "project_files" -> ProjectFile_toJSON(e)

\* routes/users.ts, user_tokens.ts, project.ts, project_files.ts GET /:id
GetById(r) ==
    /\ Free(r)
    /\ \E rt \in ItemRoutes, raw \in IdRaws, ok \in BOOLEAN :
          LET id == parseInt(raw)
              q == [Arrived("GET", rt) EXCEPT !.raw = raw]
          IN  /\ SameRouter(r, rt)
              /\ UNCHANGED <<db, autoinc, now>>
              /\ IF id.nan
                 THEN Step(r, Respond(q, 400, NullID, Null))
                 ELSE LET out == RouteFind(rt, id.val, db, autoinc, ok)
                          q1 == Issued([q EXCEPT !.id = id.val], out, ok)
                      IN  Step(r, IF out.threw
                                  THEN Respond(q1, 500, NullID, Null)
                                  ELSE IF out.ent = Null
                                  THEN Respond(q1, 404, NullID, Null)
                                  ELSE Respond(q1, 200, NullID,
                                               RouteToJSON(rt, out.ent)))

SaveRoutes == {"user_tokens", "projects", "project_files"}

RouteSave(rt, e, d, ai, ok) ==
    CASE rt = "user_tokens" -> ActiveToken_save(e, d, ai, ok)
      [] rt = "projects" -> Project_save(e, d, ai, ok)
      [] rt = "project_files" -> ProjectFile_save(e, d, ai, ok)

\* req.body of PUT /user_tokens/:id and of POST /user_tokens
TokenBodies ==
    {Restrict(b, D) : b \in [UserID : UserIds, TTL : {0, 1}],
                      D \in SUBSET {"UserID", "TTL"}}

\* req.body of PUT /project_files/:id
ProjectFilePutBodies ==
    {Restrict(b, D) :
        b \in [ParentDirectory : {1}, FileName : {"b"}, IsDirectory : {TRUE}],
        D \in SUBSET {"ParentDirectory", "FileName", "IsDirectory"}}

PutBodies(rt) ==
    CASE rt = "user_tokens" -> TokenBodies
      [] rt = "projects" -> ProjectBodies
      [] rt = "project_files" -> ProjectFilePutBodies

\* A PUT handler of /user_tokens that leaves CreationDate as loaded.
ApplyBody_KeepsCreationDate(rt, e, body, t) ==
    LET has(k) == k \in DOMAIN body
    IN  CASE rt = "user_tokens" ->
                LET e1 == IF has("UserID") THEN [e EXCEPT !.UserID = body.UserID] ELSE e
                IN  IF has("TTL") THEN [e1 EXCEPT !.TTL = body.TTL] ELSE e1
          [] rt = "projects" ->
                LET e1 == IF has("OwningUserID")
                          THEN Project_set_OwningUserID(e, body.OwningUserID) ELSE e
                IN  IF has("ProjectName")
                    THEN Project_set_ProjectName(e1, body.ProjectName) ELSE e1
          [] rt = "project_files" ->
                LET e1 == IF has("ParentDirectory")
                          THEN ProjectFile_set_ParentDirectory(e, body.ParentDirectory)
                          ELSE e
                    e2 == IF has("FileName")
                          THEN ProjectFile_set_FileName(e1, body.FileName) ELSE e1
                IN  IF has("IsDirectory")
                    THEN ProjectFile_set_IsDirectory(e2, body.IsDirectory) ELSE e2

\* The assignments a PUT handler makes from req.body to the loaded instance.
ApplyBody(rt, e, body, t) ==
    LET has(k) == k \in DOMAIN body
    IN  CASE rt = "user_tokens" ->
                LET e1 == IF has("UserID") THEN [e EXCEPT !.UserID = body.UserID] ELSE e
                    e2 == IF has("TTL") THEN [e1 EXCEPT !.TTL = body.TTL] ELSE e1
                IN  [e2 EXCEPT !.CreationDate = OtherDate(t, e.CreationDate)]
          [] rt = "projects" ->
                LET e1 == IF has("OwningUserID")
                          THEN Project_set_OwningUserID(e, body.OwningUserID) ELSE e
                IN  IF has("ProjectName")
                    THEN Project_set_ProjectName(e1, body.ProjectName) ELSE e1
          [] rt = "project_files" ->
                LET e1 == IF has("ParentDirectory")
                          THEN ProjectFile_set_ParentDirectory(e, body.ParentDirectory)
                          ELSE e
                    e2 == IF has("FileName")
                          THEN ProjectFile_set_FileName(e1, body.FileName) ELSE e1
                IN  IF has("IsDirectory")
                    THEN ProjectFile_set_IsDirectory(e2, body.IsDirectory) ELSE e2

\* routes/user_tokens.ts, project.ts, project_files.ts PUT /:id, up to the
\* query of save(); a save() that has nothing to write returns at once.
PutBegin(r) ==
    /\ Free(r)
    /\ \E rt \in SaveRoutes, raw \in IdRaws, ok \in BOOLEAN :
       \E body \in PutBodies(rt) :
          LET id == parseInt(raw)
              q == [Arrived("PUT", rt) EXCEPT !.raw = raw, !.body = body]
          IN  /\ SameRouter(r, rt)
              /\ UNCHANGED <<db, autoinc, now>>
              /\ IF id.nan
                 THEN Step(r, Respond(q, 400, NullID, Null))
                 ELSE LET out == RouteFind(rt, id.val, db, autoinc, ok)
                          q1 == Issued([q EXCEPT !.id = id.val], out, ok)
                          e == ApplyBody(rt, out.ent, body, now)
                      IN  Step(r, IF out.threw
                                  THEN Respond(q1, 500, NullID, Null)
                                  ELSE IF out.ent = Null
                                  THEN Respond(q1, 404, NullID, Null)
                                  ELSE IF RouteSave(rt, e, db, autoinc, TRUE).queries = <<>>
                                  THEN Respond([q1 EXCEPT !.inst = e], 200, NullID,
                                               RouteToJSON(rt, e))
                                  ELSE [q1 EXCEPT !.pc = "save", !.inst = e])

\* ... and from the query of save() to the response.
PutSave(r) ==
    /\ reqs[r].pc = "save"
    /\ \E ok \in BOOLEAN :
          LET q == reqs[r]
              out == RouteSave(q.route, q.inst, db, autoinc, ok)
              q1 == Issued([q EXCEPT !.inst = out.ent], out, ok)
          IN  /\ db' = out.db
              /\ autoinc' = out.autoinc
              /\ UNCHANGED now
              /\ Step(r, IF out.threw
                         THEN Respond(q1, 500, NullID, Null)
                         ELSE Respond(q1, 200, NullID, RouteToJSON(q.route, out.ent)))

\* routes/user_tokens.ts POST /
PostUserToken(r) ==
    /\ Free(r)
    /\ SameRouter(r, "user_tokens")
    /\ \E body \in TokenBodies, ok \in BOOLEAN :
          LET q == [Arrived("POST", "user_tokens") EXCEPT !.body = body]
          IN  IF "UserID" \notin DOMAIN body
              THEN /\ UNCHANGED <<db, autoinc>>
                   /\ Step(r, Respond(q, 400, NullID, Null))
              ELSE LET ttlValue == IF "TTL" \in DOMAIN body /\ body.TTL # 0
                                   THEN body.TTL ELSE DefaultTTL
                       newToken == ActiveToken_new(NullID, body.UserID, ttlValue,
                                                   Date(now, 0))
                       out == ActiveToken_save(newToken, db, autoinc, ok)
                       q1 == Issued([q EXCEPT !.inst = out.ent], out, ok)
                   IN  /\ db' = out.db
                       /\ autoinc' = out.autoinc
                       /\ Step(r, IF out.threw
                                  THEN Respond(q1, 500, NullID, Null)
                                  ELSE Respond(q1, 201, NullID,
                                               ActiveToken_toJSON(out.ent)))
    /\ UNCHANGED now

\* ActiveToken.deleteByUserID(UserID), which the replacing POST /user_tokens
\* calls and the class in models/user_models.ts does not define: one DELETE
\* of the rows of active_tokens whose user_id is UserID.
ActiveToken_deleteByUserID(UserID, d, ai, ok) ==
    LET q == <<Query("DELETE", "active_tokens", NullID)>>
        kept == {i \in DOMAIN d.active_tokens : d.active_tokens[i].user_id # UserID}
    IN  IF ~ok THEN Outcome(Null, d, ai, q, TRUE, FALSE)
        ELSE Outcome(Null,
                     [d EXCEPT !.active_tokens = [i \in kept |-> d.active_tokens[i]]],
                     ai, q, FALSE, TRUE)

\* POST /user_tokens of the router that replaces the user's tokens, up to
\* the DELETE of deleteByUserID ...
PostReplacingToken(r) ==
    /\ Free(r)
    /\ SameRouter(r, "user_tokens_replacing")
    /\ \E body \in TokenBodies, ok \in BOOLEAN :
          LET q == [Arrived("POST", "user_tokens_replacing") EXCEPT !.body = body]
          IN  IF "UserID" \notin DOMAIN body
              THEN /\ UNCHANGED <<db, autoinc>>
                   /\ Step(r, Respond(q, 400, NullID, Null))
              ELSE LET ttlValue == IF "TTL" \in DOMAIN body /\ body.TTL # 0
                                   THEN body.TTL ELSE DefaultTTL
                       newToken == ActiveToken_new(NullID, body.UserID, ttlValue,
                                                   Date(now, 0))
                       out == ActiveToken_deleteByUserID(body.UserID, db, autoinc, ok)
                       q1 == Issued([q EXCEPT !.inst = newToken], out, ok)
                   IN  /\ db' = out.db
                       /\ autoinc' = out.autoinc
                       /\ Step(r, IF out.threw
                                  THEN Respond(q1, 500, NullID, Null)
                                  ELSE [q1 EXCEPT !.pc = "newToken.save"])
    /\ UNCHANGED now

\* ... and from the INSERT of newToken.save() to the response.
ReplacingTokenSave(r) ==
    /\ reqs[r].pc = "newToken.save"
    /\ \E ok \in BOOLEAN :
          LET q == reqs[r]
              out == ActiveToken_save(q.inst, db, autoinc, ok)
              q1 == Issued([q EXCEPT !.inst = out.ent], out, ok)
          IN  /\ db' = out.db
              /\ autoinc' = out.autoinc
              /\ UNCHANGED now
              /\ Step(r, IF out.threw
                         THEN Respond(q1, 500, NullID, Null)
                         ELSE Respond(q1, 201, NullID, ActiveToken_toJSON(out.ent)))

\* The router of /project_files whose handlers await the model's calls
\* outside any try/catch. What becomes of a request whose async handler
\* rejects is the framework's: Express 5 forwards the rejection to the
\* error handler, which answers 500; Express 4 does not see it, and the
\* request gets no response. The repository does not pin the version, so
\* both are outcomes.
HandlerRejected(q, forwards) ==
    IF forwards THEN Respond(q, 500, NullID, Null)
    ELSE [q EXCEPT !.pc = "rejected", !.db1 = db']

\* router.get('/:id'): no check of the id; find() returns null for a row
\* that is missing and for a query that failed, a NaN id among them.
UnguardedGet(r) ==
    /\ UNCHANGED <<db, autoinc, now>>
    /\ Free(r)
    /\ SameRouter(r, "project_files_unguarded")
    /\ \E raw \in IdRaws, ok \in BOOLEAN :
          LET id == parseInt(raw)
              q == [Arrived("GET", "project_files_unguarded") EXCEPT !.raw = raw]
              out == ProjectFile_find(IF id.nan THEN NullID ELSE id.val, db, autoinc,
                                      ok /\ ~id.nan)
              q1 == Issued([q EXCEPT !.id = IF id.nan THEN NullID ELSE id.val],
                           out, ok /\ ~id.nan)
          IN  Step(r, IF out.ent = Null
                      THEN Respond(q1, 404, NullID, Null)
                      ELSE Respond(q1, 200, NullID, ProjectFile_toJSON(out.ent)))

\* router.post('/')
UnguardedPost(r) ==
    /\ Free(r)
    /\ SameRouter(r, "project_files_unguarded")
    /\ \E body \in ProjectFileBodies, ok, forwards \in BOOLEAN :
          LET q == [Arrived("POST", "project_files_unguarded") EXCEPT !.body = body]
          IN  IF ~({"ProjectID", "FileName", "IsDirectory"} \subseteq DOMAIN body)
              THEN /\ UNCHANGED <<db, autoinc>>
                   /\ Step(r, Respond(q, 400, NullID, Null))
              ELSE LET newFile ==
                           ProjectFile_new(NullID, body.ProjectID,
                               IF "ParentDirectory" \in DOMAIN body
                               THEN body.ParentDirectory ELSE NullID,
                               body.FileName, body.IsDirectory, Date(now, 0))
                       out == ProjectFile_save(newFile, db, autoinc, ok)
                       q1 == Issued([q EXCEPT !.inst = out.ent], out, ok)
                   IN  /\ db' = out.db
                       /\ autoinc' = out.autoinc
                       /\ Step(r, IF out.threw
                                  THEN HandlerRejected(q1, forwards)
                                  ELSE Respond(q1, 201, NullID,
                                               ProjectFile_toJSON(out.ent)))
    /\ UNCHANGED now

\* router.put('/:id'), up to the query of save() ...
UnguardedPut(r) ==
    /\ UNCHANGED <<db, autoinc, now>>
    /\ Free(r)
    /\ SameRouter(r, "project_files_unguarded")
    /\ \E raw \in IdRaws, body \in ProjectFilePutBodies, ok \in BOOLEAN :
          LET id == parseInt(raw)
              q == [Arrived("PUT", "project_files_unguarded")
                       EXCEPT !.raw = raw, !.body = body]
              out == ProjectFile_find(IF id.nan THEN NullID ELSE id.val, db, autoinc,
                                      ok /\ ~id.nan)
              q1 == Issued([q EXCEPT !.id = IF id.nan THEN NullID ELSE id.val],
                           out, ok /\ ~id.nan)
              e == ApplyBody("project_files", out.ent, body, now)
          IN  Step(r, IF out.ent = Null
                      THEN Respond(q1, 404, NullID, Null)
                      ELSE IF ProjectFile_save(e, db, autoinc, TRUE).queries = <<>>
                      THEN Respond([q1 EXCEPT !.inst = e], 200, NullID,
                                   ProjectFile_toJSON(e))
                      ELSE [q1 EXCEPT !.pc = "file.save", !.inst = e])

\* ... and from the query of save() on.
UnguardedPutSave(r) ==
    /\ reqs[r].pc = "file.save"
    /\ \E ok, forwards \in BOOLEAN :
          LET q == reqs[r]
              out == ProjectFile_save(q.inst, db, autoinc, ok)
              q1 == Issued([q EXCEPT !.inst = out.ent], out, ok)
          IN  /\ db' = out.db
              /\ autoinc' = out.autoinc
              /\ UNCHANGED now
              /\ Step(r, IF out.threw
                         THEN HandlerRejected(q1, forwards)
                         ELSE Respond(q1, 200, NullID, ProjectFile_toJSON(out.ent)))

UserFields == {"sub", "email", "name", "picture"}

\* req.body of POST /users: complete, or one required field missing.
UserPostBodies ==
    {Restrict(b, D) :
        b \in [sub : Names, email : {"b"}, name : {"b"}, picture : {"b"}],
        D \in {UserFields} \cup {UserFields \ {f} : f \in UserFields}}

\* req.body of PUT /users/:id
UserPutBodies ==
    {Restrict(b, D) : b \in [email : {"b"}, name : {"b"}, picture : {"b"}],
                      D \in SUBSET {"email", "name", "picture"}}

\* A step of createOrUpdate on behalf of request q ...
CreateOrUpdateStep(q, at, ok) ==
    User_createOrUpdate(q.inst, db, autoinc, now, at, q.uid, ok)

\* ... and what the users handlers do with its result.
CreateOrUpdateDone(q, cou, ok) ==
    LET q1 == [q EXCEPT !.qs = Append(@, cou.q), !.failed = @ \/ ~ok,
                        !.uid = cou.UserID]
    IN  CASE cou.next = "throw" -> Respond(q1, 500, NullID, Null)
          [] cou.next \in {"update", "insert"} -> [q1 EXCEPT !.pc = cou.next]
          [] cou.next = "return" /\ q.method = "POST" ->
                Respond([q1 EXCEPT !.inst = cou.user], 201, cou.user.UserID,
                        User_toJSON(cou.user))
          [] cou.next = "return" /\ q.method = "PUT" ->
                Respond([q1 EXCEPT !.inst = cou.user], 200, NullID,
                        User_toJSON(cou.user))

\* routes/users.ts POST /, up to the lookup of createOrUpdate
PostUser(r) ==
    /\ Free(r)
    /\ SameRouter(r, "users")
    /\ \E body \in UserPostBodies, ok \in BOOLEAN :
          LET q == [Arrived("POST", "users") EXCEPT !.body = body, !.inst = body]
          IN  /\ UNCHANGED <<db, autoinc, now>>
              /\ IF DOMAIN body # UserFields
                 THEN Step(r, Respond(q, 400, NullID, Null))
                 ELSE Step(r, CreateOrUpdateDone(q,
                                  CreateOrUpdateStep(q, "select", ok), ok))

\* routes/users.ts PUT /:id, up to the query of findById
PutUser(r) ==
    /\ Free(r)
    /\ SameRouter(r, "users")
    /\ \E raw \in IdRaws, body \in UserPutBodies, ok \in BOOLEAN :
          LET id == parseInt(raw)
              q == [Arrived("PUT", "users") EXCEPT !.raw = raw, !.body = body]
              has(k) == k \in DOMAIN body
          IN  /\ UNCHANGED <<db, autoinc, now>>
              /\ IF id.nan
                 THEN Step(r, Respond(q, 400, NullID, Null))
                 ELSE LET out == User_findById(id.val, db, autoinc, ok)
                          q1 == Issued([q EXCEPT !.id = id.val], out, ok)
                          user == out.ent
                          e == [user EXCEPT
                                  !.email = IF has("email") THEN body.email ELSE @,
                                  !.name = IF has("name") THEN body.name ELSE @,
                                  !.picture = IF has("picture") THEN body.picture ELSE @,
                                  !.lastLogin = OtherDate(now, @)]
                      IN  Step(r, IF user = Null
                                  THEN Respond(q1, 404, NullID, Null)
                                  ELSE IF e.UserID = NullID
                                  THEN Respond(q1, 500, NullID, Null)
                                  ELSE [q1 EXCEPT !.pc = "select", !.inst = e])

\* User.update of PUT /users/:id: the lookup of createOrUpdate
UserSelect(r) ==
    /\ reqs[r].pc = "select"
    /\ \E ok \in BOOLEAN :
          /\ UNCHANGED <<db, autoinc, now>>
          /\ Step(r, CreateOrUpdateDone(reqs[r],
                         CreateOrUpdateStep(reqs[r], "select", ok), ok))

\* createOrUpdate: its UPDATE or INSERT, and the response
UserWrite(r) ==
    /\ reqs[r].pc \in {"update", "insert"}
    /\ \E ok \in BOOLEAN :
          LET cou == CreateOrUpdateStep(reqs[r], reqs[r].pc, ok)
          IN  /\ db' = cou.db
              /\ autoinc' = cou.autoinc
              /\ UNCHANGED now
              /\ Step(r, CreateOrUpdateDone(reqs[r], cou, ok))

-----------------------------------------------------------------------------
(* routes/auth.ts and passport.ts: the callback of the Google login.       *)

\* What the provider's answer makes of the login: the identity confirmed,
\* the login denied, or the exchange with the provider broken.
AuthOutcomes == {"confirmed", "denied", "error"}

\* passport.authenticate("google", options): a confirmed identity goes on
\* to the next handler (status 0: no response yet); a denied login is
\* redirected to options.failureRedirect when the option is given and is
\* answered 401 otherwise; an error goes to the error handler.
passport_authenticate(options, outcome) ==
    CASE outcome = "confirmed" -> [status |-> 0, redirect |-> ""]
      [] outcome = "denied" ->
            IF "failureRedirect" \in DOMAIN options
            THEN [status |-> 302, redirect |-> options.failureRedirect]
            ELSE [status |-> 401, redirect |-> ""]
      [] outcome = "error" -> [status |-> 500, redirect |-> ""]

\* User.findOrCreateByGoogleId(sub, profile), which passport.ts calls and
\* the class in the repository does not define: the user whose row has this
\* sub, or a new row for it.
User_findOrCreateByGoogleId(sub, d, ai, t, ok) ==
    LET ids == RowsBySub(d, sub)
        sel == Query("SELECT", "users", NullID)
    IN  IF ~ok THEN Outcome(Null, d, ai, <<sel>>, TRUE, FALSE)
        ELSE IF ids # {}
        THEN Outcome(User_make(d, CHOOSE i \in ids : \A j \in ids : i <= j),
                     d, ai, <<sel>>, FALSE, TRUE)
        ELSE LET user == User_new(ai.users, sub, sub, sub, sub, Date(t, 0))
             IN  Outcome(user, Insert(d, "users", ai.users, User_row(user)),
                         Bump(ai, "users"),
                         <<sel, Query("INSERT", "users", NullID)>>, FALSE, TRUE)

\* routes/auth.ts GET /google/callback. The request is marked "AUTH" to
\* tell it from the requests of the users router.
AuthCallback(r) ==
    /\ Free(r)
    /\ SameRouter(r, "auth")
    /\ \E outcome \in AuthOutcomes, sub \in Names, ok \in BOOLEAN :
          LET q == [Arrived("AUTH", "auth") EXCEPT !.body = [outcome |-> outcome]]
              auth == passport_authenticate([failureRedirect |-> "/login"], outcome)
              out == User_findOrCreateByGoogleId(sub, db, autoinc, now, ok)
              q1 == Issued(q, out, ok)
          IN  IF auth.status # 0
              THEN /\ UNCHANGED <<db, autoinc, now>>
                   /\ Step(r, Respond(q, auth.status, NullID,
                                      [redirect |-> auth.redirect]))
              ELSE /\ db' = out.db
                   /\ autoinc' = out.autoinc
                   /\ UNCHANGED now
                   /\ Step(r, IF out.threw \/ out.ent.UserID = NullID
                              THEN Respond(q1, 500, NullID, Null)
                              ELSE Respond([q1 EXCEPT !.inst = out.ent], 302, NullID,
                                           [redirect |-> "app"]))

Next ==
    \/ \E r \in Reqs : PostProject(r) /\ UNCHANGED <<listVars, entityVars, pool>>
    \/ \E r \in Reqs : PostProjectFile(r) /\ UNCHANGED <<listVars, entityVars, pool>>
    \/ \E r \in Reqs : DeleteBegin(r) /\ UNCHANGED <<listVars, entityVars, pool>>
    \/ \E r \in Reqs : DeleteResume(r) /\ UNCHANGED <<listVars, entityVars, pool>>
    \/ \E r \in Reqs : GetById(r) /\ UNCHANGED <<listVars, entityVars, pool>>
    \/ \E r \in Reqs : PutBegin(r) /\ UNCHANGED <<listVars, entityVars, pool>>
    \/ \E r \in Reqs : PutSave(r) /\ UNCHANGED <<listVars, entityVars, pool>>
    \/ \E r \in Reqs : PostUserToken(r) /\ UNCHANGED <<listVars, entityVars, pool>>
    \/ \E r \in Reqs : PostUser(r) /\ UNCHANGED <<listVars, entityVars, pool>>
    \/ \E r \in Reqs : PutUser(r) /\ UNCHANGED <<listVars, entityVars, pool>>
    \/ \E r \in Reqs : UserSelect(r) /\ UNCHANGED <<listVars, entityVars, pool>>
    \/ \E r \in Reqs : UserWrite(r) /\ UNCHANGED <<listVars, entityVars, pool>>
    \/ \E r \in Reqs : AuthCallback(r) /\ UNCHANGED <<listVars, entityVars, pool>>
    \/ \E r \in Reqs : PostReplacingToken(r) /\ UNCHANGED <<listVars, entityVars, pool>>
    \/ \E r \in Reqs : ReplacingTokenSave(r) /\ UNCHANGED <<listVars, entityVars, pool>>
    \/ \E r \in Reqs : UnguardedGet(r) /\ UNCHANGED <<listVars, entityVars, pool>>
    \/ \E r \in Reqs : UnguardedPost(r) /\ UNCHANGED <<listVars, entityVars, pool>>
    \/ \E r \in Reqs : UnguardedPut(r) /\ UNCHANGED <<listVars, entityVars, pool>>
    \/ \E r \in Reqs : UnguardedPutSave(r) /\ UNCHANGED <<listVars, entityVars, pool>>
    \/ Tick /\ UNCHANGED <<listVars, entityVars, reqs, pool>>

Spec == Init /\ [][Next]_vars

-----------------------------------------------------------------------------
(* SpecRead: the list routes next to GET /:id and DELETE /:id, over a      *)
(* store that holds up to MaxRows rows a table. A list handler runs its    *)
(* two queries in two steps, so a DELETE can fall between them.            *)

MaxRows == 3

\* The i-th row of table t: the rows differ in the columns the list routes
\* filter and sort on.
NthRow(t, i) ==
    CASE t = "users" ->
            [FirstRow(t) EXCEPT !.sub = Alphabet[i],
                                !.name = IF i % 2 = 1 THEN "a" ELSE "b"]
      [] t = "active_tokens" ->
            [FirstRow(t) EXCEPT !.user_id = IF i % 2 = 1 THEN 1 ELSE MaxUser]
      [] t = "Project" ->
            [FirstRow(t) EXCEPT !.OwningUserID = IF i % 2 = 1 THEN 1 ELSE MaxUser,
                                !.ProjectName = IF i <= 2 THEN "a" ELSE "b",
                                !.CreationDate = (i - 1) % 2]
      [] t = "ProjectFiles" ->
            [FirstRow(t) EXCEPT !.FileName = IF i <= 2 THEN "a" ELSE "b",
                                !.IsDirectory = (i - 1) % 2,
                                !.CreationDate = IF i = 2 THEN 1 ELSE 0]

InitRead ==
    /\ \E n \in 0..MaxRows :
          /\ db = [t \in Tables |-> [i \in 1..n |-> NthRow(t, i)]]
          /\ autoinc = [t \in Tables |-> n + 1]
    /\ now = 0
    /\ ReqIdle
    /\ PoolIdle
    /\ EntityIdle
    /\ ListIdle

\* limit and offset as the client sends them: neither, a limit, both, and
\* an offset past the last row.
Paging ==
    {<<>>,
     <<Param(Str_limit, <<"1">>)>>,
     <<Param(Str_limit, <<"2">>), Param(Str_offset, <<"1">>)>>,
     <<Param(Str_offset, <<"5">>)>>}

SortedRoutes == {"projects_sorted", "project_files"}

\* The other parameters of a list request: sort, order and the filters.
Selections(rt) ==
    CASE rt = "projects_sorted" ->
            {<<>>,
             <<Param(Str_sort, Str_ProjectName)>>,
             <<Param(Str_sort, Str_Bogus)>>,
             <<Param(Str_order, Str_desc)>>,
             <<Param(Str_order, Str_Bogus)>>,
             <<Param(Str_ProjectName, <<"a">>)>>,
             <<Param(Str_OwningUserID, <<"1">>), Param(Str_sort, Str_CreationDate),
               Param(Str_order, Str_desc)>>}
      [] rt = "project_files" ->
            {<<>>,
             <<Param(Str_sort, Str_FileName)>>,
             <<Param(Str_sort, Str_Bogus)>>,
             <<Param(Str_order, Str_desc)>>,
             <<Param(Str_order, Str_Bogus)>>,
             <<Param(Str_ProjectID, <<"1">>)>>,
             <<Param(Str_FileName, <<"a">>), Param(Str_IsDirectory, Str_true)>>,
             <<Param(Str_IsDirectory, Str_false), Param(Str_sort, Str_CreationDate),
               Param(Str_order, Str_desc)>>}
      [] OTHER -> {<<>>}

\* req.query of a list request
ListQueries(rt) == {p \o x : p \in Paging, x \in Selections(rt)}

\* const { sort = ..., order = 'asc' } = req.query: the default stands in
\* for a parameter the request does not carry.
OrDefault(q, n, dflt) == IF HasParam(q, n) THEN QueryValue(q, n) ELSE dflt

\* One property of the filters object, or none.
Filter(q, n, k, v) == IF HasParam(q, n) /\ QueryValue(q, n) # <<>> THEN k :> v ELSE NoFilters

\* What the list handler of a route hands to findAll. The ids a request
\* filters on are numeric, so parseInt yields a number for each.
ListOptions(rt, q) ==
    LET p == paginate(q)
    IN  CASE rt = "projects_sorted" ->
                [limit |-> p.limit, offset |-> p.offset,
                 filters |->
                     Filter(q, Str_ProjectName, "ProjectName",
                            QueryValue(q, Str_ProjectName))
                     @@ Filter(q, Str_OwningUserID, "OwningUserID",
                               parseInt(QueryValue(q, Str_OwningUserID)).val),
                 sort |-> OrDefault(q, Str_sort, Str_ProjectID),
                 order |-> OrDefault(q, Str_order, Str_asc)]
          [] rt = "project_files" ->
                [limit |-> p.limit, offset |-> p.offset,
                 filters |->
                     Filter(q, Str_ProjectID, "ProjectID",
                            parseInt(QueryValue(q, Str_ProjectID)).val)
                     @@ Filter(q, Str_FileName, "FileName",
                               QueryValue(q, Str_FileName))
                     @@ (IF HasParam(q, Str_IsDirectory)
                         THEN "IsDirectory" :> (QueryValue(q, Str_IsDirectory) = Str_true)
                         ELSE NoFilters),
                 sort |-> OrDefault(q, Str_sort, Str_FileID),
                 order |-> OrDefault(q, Str_order, Str_asc)]
          [] OTHER ->
                [limit |-> p.limit, offset |-> p.offset, filters |-> NoFilters,
                 sort |-> <<>>, order |-> <<>>]

\* The check of order and then of sort that opens a sorted list handler,
\* left out.
SortOrderValid_Unchecked(rt, sort, order) == TRUE

\* routes/project_files.ts and the sorted /projects route: order is asc or
\* desc and sort is one of validSortFields.
SortOrderValid(rt, sort, order) ==
    /\ order = Str_asc \/ order = Str_desc
    /\ sort \in (IF rt = "projects_sorted"
                 THEN {Str_ProjectID, Str_ProjectName, Str_CreationDate}
                 ELSE {Str_FileID, Str_FileName, Str_CreationDate})

RouteFindAll(rt, opts, d, at, ok) ==
    CASE rt = "users" ->
            User_findAll([limit |-> opts.limit, offset |-> opts.offset,
                          filters |-> NoFilters], d, at, ok)
      [] rt = "user_tokens" -> ActiveToken_findAll(opts.limit, opts.offset, d, at, ok)
      [] rt = "projects" -> Project_findAll_paged(opts.limit, opts.offset, d, at, ok)
      [] rt = "projects_sorted" -> Project_findAll(opts, d, at, ok)
      [] rt = "project_files" -> ProjectFile_findAll(opts, d, at, ok)

RouteLinks(rt, q, tot, limit, offset) ==
    CASE rt \in {"users", "projects"} -> InlineLinks(tot, limit, offset)
      [] rt = "user_tokens" -> generateHATEOASLinks(q, tot, limit, offset)
      [] rt \in SortedRoutes -> ReplaceLinks(q, tot, limit, offset)

\* GET / of a router, up to the COUNT query of findAll. The request is
\* marked "LIST" to tell it from GET /:id.
ListBegin(r) ==
    /\ Free(r)
    /\ \E rt \in ListRoutes : \E qy \in ListQueries(rt), ok \in BOOLEAN :
          LET q == [Arrived("LIST", rt) EXCEPT !.query = qy]
              opts == ListOptions(rt, qy)
          IN  /\ SameRouter(r, rt)
              /\ UNCHANGED <<db, autoinc, now>>
              /\ IF rt \in SortedRoutes /\ ~SortOrderValid(rt, opts.sort, opts.order)
                 THEN Step(r, Respond(q, 400, NullID, [error |-> "Invalid parameter"]))
                 ELSE LET out == RouteFindAll(rt, opts, db, "count", ok)
                          q1 == Issued(q, out, ok)
                      IN  Step(r, IF out.threw
                                  THEN Respond(q1, 500, NullID, Null)
                                  ELSE [q1 EXCEPT !.pc = "rows",
                                                  !.inst = [opts |-> opts,
                                                            total |-> out.total]])

\* ... and from the SELECT of findAll to the response.
ListRows(r) ==
    /\ reqs[r].pc = "rows"
    /\ \E ok \in BOOLEAN :
          LET q == reqs[r]
              opts == q.inst.opts
              out == RouteFindAll(q.route, opts, db, "select", ok)
              q1 == Issued(q, out, ok)
          IN  /\ UNCHANGED <<db, autoinc, now>>
              /\ Step(r, IF out.threw
                         THEN Respond(q1, 500, NullID, Null)
                         ELSE Respond(q1, 200, NullID,
                                  [total |-> q.inst.total, limit |-> opts.limit,
                                   offset |-> opts.offset,
                                   data |-> [k \in 1..Len(out.items) |->
                                                RouteToJSON(q.route, out.items[k])],
                                   links |-> RouteLinks(q.route, q.query, q.inst.total,
                                                        opts.limit, opts.offset)]))

NextRead ==
    \/ \E r \in Reqs : ListBegin(r) /\ UNCHANGED <<listVars, entityVars, pool>>
    \/ \E r \in Reqs : ListRows(r) /\ UNCHANGED <<listVars, entityVars, pool>>
    \/ \E r \in Reqs : GetById(r) /\ UNCHANGED <<listVars, entityVars, pool>>
    \/ \E r \in Reqs : DeleteBegin(r) /\ UNCHANGED <<listVars, entityVars, pool>>
    \/ \E r \in Reqs : DeleteResume(r) /\ UNCHANGED <<listVars, entityVars, pool>>

SpecRead == InitRead /\ [][NextRead]_vars

-----------------------------------------------------------------------------
(* SpecToken: a token is constructed, the clock moves on, and isValid() is *)
(* called at any instant. Instants are milliseconds, as Date.getTime()     *)
(* gives them; TTL is in seconds.                                          *)

TokenTTLs == TTLs \cup {2}

\* The instants around the expiry of each token, and those of creation.
Instants ==
    Times \cup {c + T * 1000 + k : c \in Times, T \in TokenTTLs, k \in -1..1}

\* constructor(TokenID, UserID, TTL = 3600, CreationDate = new Date()):
\* args holds the optional arguments the caller passes.
ActiveToken_constructor(TokenID, UserID, args, t) ==
    ActiveToken_new(TokenID, UserID,
                    IF "TTL" \in DOMAIN args THEN args.TTL ELSE DefaultTTL,
                    IF "CreationDate" \in DOMAIN args THEN args.CreationDate
                    ELSE Date(t, 0))

\* isValid() with <= in place of <.
ActiveToken_isValid_Inclusive(e, t) == t - e.CreationDate.time <= e.TTL * 1000

\* isValid() called at instant t
ActiveToken_isValid(e, t) == t - e.CreationDate.time < e.TTL * 1000

InitToken ==
    /\ StoreIdle
    /\ EntityIdle
    /\ ListIdle
    /\ ReqIdle
    /\ PoolIdle

T_New ==
    /\ ent = Null
    /\ \E u \in UserIds, D \in SUBSET {"TTL", "CreationDate"} :
       \E args \in {Restrict(a, D) :
                       a \in [TTL : TokenTTLs \ {DefaultTTL},
                              CreationDate : {Date(0, 0)}]} :
          /\ ent' = ActiveToken_constructor(NullID, u, args, now)
          /\ call' = Called("new", IF "TTL" \in D THEN "TTL" ELSE "", Null, FALSE)
    /\ UNCHANGED <<pre, queries, synced, db, autoinc, now>>

T_Tick ==
    /\ \E t \in Instants : t > now /\ now' = t
    /\ UNCHANGED <<ent, call, pre, queries, synced, db, autoinc>>

T_isValid ==
    /\ ent # Null
    /\ call' = Called("isValid", "",
                      [valid |-> ActiveToken_isValid(ent, now), at |-> now], FALSE)
    /\ UNCHANGED <<ent, pre, queries, synced, db, autoinc, now>>

NextToken ==
    \/ T_New /\ UNCHANGED <<listVars, reqs, pool>>
    \/ T_Tick /\ UNCHANGED <<listVars, reqs, pool>>
    \/ T_isValid /\ UNCHANGED <<listVars, reqs, pool>>

SpecToken == InitToken /\ [][NextToken]_vars

-----------------------------------------------------------------------------
(* SpecPool: queries are issued on the pool and answered, in any order.    *)

InitPool ==
    /\ StoreIdle
    /\ EntityIdle
    /\ ListIdle
    /\ ReqIdle
    /\ PoolIdle

P_Query ==
    /\ pool' = Pool_query(pool)
    /\ UNCHANGED <<storeVars, entityVars>>

P_Answer ==
    /\ pool.inUse > 0
    /\ pool' = Pool_release(pool)
    /\ UNCHANGED <<storeVars, entityVars>>

NextPool ==
    \/ P_Query /\ UNCHANGED <<listVars, reqs>>
    \/ P_Answer /\ UNCHANGED <<listVars, reqs>>

SpecPool == InitPool /\ [][NextPool]_vars

-----------------------------------------------------------------------------
(* SpecJSON: an instance of one of the four classes is constructed, its    *)
(* toJSON() is called, and the text is parsed and an instance constructed  *)
(* from the parsed fields.                                                 *)

\* Strings, among them ones with the characters JSON escapes.
JsonStrings == {<<"a">>, <<"\"">>, <<"a", "\\", "b">>}

InitJSON ==
    /\ StoreIdle
    /\ EntityIdle
    /\ ListIdle
    /\ ReqIdle
    /\ PoolIdle

J_Construct(e) ==
    /\ ent = Null
    /\ ent' = e
    /\ call' = Called("new", "", Null, FALSE)
    /\ UNCHANGED <<pre, queries, synced, db, autoinc, now>>

J_NewUser ==
    \E id \in {NullID} \cup Ids, n \in JsonStrings, t \in Times :
        J_Construct(User_new(id, n, <<"a">>, n, <<"a">>, Date(t, 0)))

J_NewActiveToken ==
    \E id \in {NullID} \cup Ids, u \in UserIds, ttl \in TTLs, t \in Times :
        J_Construct(ActiveToken_new(id, u, ttl, Date(t, 0)))

J_NewProject ==
    \E id \in {NullID} \cup Ids, u \in UserIds, n \in JsonStrings :
        J_Construct(Project_new(id, u, n, Date(now, 0)))

J_NewProjectFile ==
    \E id \in {NullID} \cup Ids, parent \in {NullID} \cup Ids, n \in JsonStrings, dir \in BOOLEAN :
        J_Construct(ProjectFile_new(id, 1, parent, n, dir, Date(now, 0)))

ToJSON_text(e) ==
    CASE e.cls = "User" -> User_toJSON_text(e)
      [] e.cls = "ActiveToken" -> ActiveToken_toJSON_text(e)
      [] e.cls = "Project" -> Project_toJSON_text(e)
      [] e.cls = "ProjectFile" -> ProjectFile_toJSON_text(e)

FromObject(cls, o) ==
    CASE cls = "User" -> User_fromObject(o)
      [] cls = "ActiveToken" -> ActiveToken_fromObject(o)
      [] cls = "Project" -> Project_fromObject(o)
      [] cls = "ProjectFile" -> ProjectFile_fromObject(o)

J_toJSON ==
    /\ ent # Null /\ call.op = "new"
    /\ call' = Called("toJSON", "", ToJSON_text(ent), FALSE)
    /\ UNCHANGED <<ent, pre, queries, synced, db, autoinc, now>>

J_Hydrate ==
    /\ call.op = "toJSON"
    /\ call' = Called("hydrate", "", FromObject(ent.cls, JSON_parse(call.value)), FALSE)
    /\ UNCHANGED <<ent, pre, queries, synced, db, autoinc, now>>

NextJSON ==
    \/ J_NewUser /\ UNCHANGED <<listVars, reqs, pool>>
    \/ J_NewActiveToken /\ UNCHANGED <<listVars, reqs, pool>>
    \/ J_NewProject /\ UNCHANGED <<listVars, reqs, pool>>
    \/ J_NewProjectFile /\ UNCHANGED <<listVars, reqs, pool>>
    \/ J_toJSON /\ UNCHANGED <<listVars, reqs, pool>>
    \/ J_Hydrate /\ UNCHANGED <<listVars, reqs, pool>>

SpecJSON == InitJSON /\ [][NextJSON]_vars

-----------------------------------------------------------------------------
(* Reading a link back: the value a link carries for a parameter name.     *)

RECURSIVE SplitOn(_, _)
SplitOn(s, sep) ==
    LET i == IndexOf(s, <<sep>>, 1)
    IN  IF i = 0 THEN <<s>>
        ELSE <<SubSeq(s, 1, i - 1)>> \o SplitOn(SubSeq(s, i + 1, Len(s)), sep)

\* The [name, value] pairs of a serialized query string.
LinkParams(link) ==
    LET parts == SplitOn(link, "&")
    IN  [i \in 1..Len(parts) |->
            LET eq == IndexOf(parts[i], <<"=">>, 1)
            IN  IF eq = 0 THEN Param(parts[i], <<>>)
                ELSE Param(SubSeq(parts[i], 1, eq - 1),
                           SubSeq(parts[i], eq + 1, Len(parts[i])))]

LinkHas(link, n) == HasParam(LinkParams(link), n)

LinkValue(link, n) == QueryValue(LinkParams(link), n)

\* The offset a link carries, as the number a client reads from it.
LinkOffset(link) == parseInt(LinkValue(link, Str_offset))

Responded == lpc = "done"

-----------------------------------------------------------------------------
(* Claims on pagination and links (SpecList).                              *)

CE_C2_LastOffset ==
    Responded =>
        LET last == LinkOffset(links["last"])
        IN  /\ ~last.nan
            /\ last.val % pagination.limit = 0
            /\ last.val >= 0
            /\ total = 0 => last.val = 0
            /\ total > 0 => last.val < total

\* C3: the `next` link is present iff offset + limit < total, and when
\* present its offset is offset + limit (so < total).
CE_C3_NextLink ==
    Responded =>
        /\ ("next" \in DOMAIN links) <=> (pagination.offset + pagination.limit < total)
        /\ "next" \in DOMAIN links =>
              /\ LinkOffset(links["next"]) = Num(pagination.offset + pagination.limit)
              /\ LinkOffset(links["next"]).val < total

\* C4: on every list route the `prev` link is present iff offset > 0, and
\* when present its offset is max(offset - limit, 0): never negative and
\* strictly smaller than the current offset.
CE_C4_PrevLink ==
    Responded =>
        /\ ("prev" \in DOMAIN links) <=> (pagination.offset > 0)
        /\ "prev" \in DOMAIN links =>
              /\ LinkOffset(links["prev"])
                    = Num(Max(pagination.offset - pagination.limit, 0))
              /\ LinkOffset(links["prev"]).val < pagination.offset

\* C5: every link of a list response carries every query parameter of the
\* request other than limit and offset, name and value unchanged.
CE_C5_OtherParamsKept ==
    Responded =>
        \A k \in DOMAIN links : \A i \in 1..Len(query) :
            query[i].name \notin {Str_limit, Str_offset} =>
                /\ LinkHas(links[k], query[i].name)
                /\ LinkValue(links[k], query[i].name) = query[i].value

\* The offset the handler computes for link k of the response.
ComputedOffset(k) ==
    CASE k = "self" -> pagination.offset
      [] k = "first" -> 0
      [] k = "last" -> LastOffset(total, pagination.limit)
      [] k = "next" -> pagination.offset + pagination.limit
      [] k = "prev" ->
            IF route = "user_tokens"
            THEN Max(pagination.offset - pagination.limit, 0)
            ELSE pagination.offset - pagination.limit

\* C23: in every link of a list response, whatever the query parameters of
\* the request, the parameter named offset carries the offset computed for
\* that link and the parameter named limit the effective limit, also on the
\* routes that replace the text "offset=<current>" in the serialized query.
CE_C23_LinkCarriesItsOffset ==
    Responded =>
        \A k \in DOMAIN links :
            /\ LinkOffset(links[k]) = Num(ComputedOffset(k))
            /\ parseInt(LinkValue(links[k], Str_limit)) = Num(pagination.limit)

-----------------------------------------------------------------------------
(* Claims on the entity classes (SpecEntity).                              *)

EntityId(e) ==
    CASE e.cls = "Project" -> e.ProjectID
      [] e.cls = "ProjectFile" -> e.FileID
      [] e.cls = "ActiveToken" -> e.TokenID

EntityTable(e) ==
    CASE e.cls = "Project" -> "Project"
      [] e.cls = "ProjectFile" -> "ProjectFiles"
      [] e.cls = "ActiveToken" -> "active_tokens"

EntityRow(e) ==
    CASE e.cls = "Project" -> Project_row(e)
      [] e.cls = "ProjectFile" -> ProjectFile_row(e)
      [] e.cls = "ActiveToken" -> ActiveToken_row(e)

Writes == SelectSeq(queries, IsWrite)

SaveCalled == call.op = "save"

\* C7: for every entity with save() (Project, ProjectFile, ActiveToken),
\* save() on an instance none of whose fields was changed since it was
\* loaded or last saved performs zero store writes and leaves the instance
\* and the store unchanged.
CE_C7_CleanSaveWritesNothing ==
    (SaveCalled /\ pre.synced) =>
        /\ Writes = <<>>
        /\ ent = pre.ent
        /\ db = pre.db

\* C8: save() on a dirty Project or ProjectFile issues exactly one store
\* write: an UPDATE of the row with the instance's id when the id is
\* present, otherwise an INSERT after which the instance carries the id the
\* store assigned. After a successful save() the instance is clean, and a
\* save() that immediately follows writes nothing.
Thm_C8_DirtySaveWritesOnce ==
    (SaveCalled /\ pre.ent.cls \in {"Project", "ProjectFile"}) =>
        LET t == EntityTable(pre.ent)
            id == EntityId(pre.ent)
        IN  /\ pre.ent._isDirty =>
                /\ Len(queries) = 1 /\ Len(Writes) = 1
                /\ id # NullID =>
                      /\ Writes[1] = Query("UPDATE", t, id)
                      /\ EntityId(ent) = id
                      /\ \A i \in DOMAIN db[t] : i # id => db[t][i] = pre.db[t][i]
                      /\ DOMAIN db[t] = DOMAIN pre.db[t]
                      /\ (~call.threw /\ Exists(db, t, id)) => db[t][id] = EntityRow(ent)
                /\ id = NullID =>
                      /\ Writes[1].sql = "INSERT" /\ Writes[1].table = t
                      /\ ~call.threw =>
                            /\ EntityId(ent) = pre.autoinc[t]
                            /\ EntityId(ent) # NullID
                            /\ DOMAIN db[t] = DOMAIN pre.db[t] \cup {EntityId(ent)}
                            /\ EntityId(ent) \notin DOMAIN pre.db[t]
                            /\ db[t][EntityId(ent)] = EntityRow(ent)
                /\ ~call.threw => ~ent._isDirty
                /\ call.threw => (ent = pre.ent /\ db = pre.db)
            /\ call.afterSave => (queries = <<>> /\ db = pre.db)

\* A new, dirty ProjectFile has been saved: the INSERT gave it its id.
Wit_C8_DirtyInsert ==
    /\ SaveCalled /\ ~call.threw
    /\ pre.ent.cls = "ProjectFile"
    /\ pre.ent._isDirty /\ pre.ent.FileID = NullID
    /\ ent.FileID # NullID /\ ~ent._isDirty
    /\ Len(Writes) = 1

\* C9: assigning through a setter of Project or ProjectFile marks the
\* instance dirty iff the new value differs from the current one under
\* value equality; assigning an equal value (also a CreationDate for the same
\* instant held in another object) leaves the dirty flag and the field
\* unchanged.
CE_C9_SetterValueEquality ==
    call.op = "set" =>
        IF ValueEquals(call.field, call.value, pre.ent[call.field])
        THEN ent = pre.ent
        ELSE ent._isDirty /\ ent[call.field] = call.value

-----------------------------------------------------------------------------
(* Claims on the route handlers (Spec).                                    *)

Done(q) == q.pc = "done"

InsertsOf(q) == SelectSeq(q.qs, LAMBDA x : x.sql = "INSERT")

\* C6: POST /projects (and likewise POST /project_files) with all required
\* fields present, the store answering, inserts exactly one new row to which
\* the store assigns an id, and answers 201 with a Location header ending in
\* that id and a body carrying the same id.
CE_C6_PostCreatesRow ==
    \A r \in Reqs :
        LET q == reqs[r]
            t == RouteTable(q.route)
            idField == IF q.route = "projects" THEN "ProjectID" ELSE "FileID"
        IN  (Done(q) /\ q.method = "POST" /\ q.status # 400 /\ ~q.failed) =>
                /\ q.status = 201
                /\ Len(InsertsOf(q)) = 1
                /\ q.location # NullID
                /\ q.location \notin DOMAIN q.db0[t]
                /\ DOMAIN q.db1[t] = DOMAIN q.db0[t] \cup {q.location}
                /\ q.json[idField] = q.location

\* C10: DELETE /users/:id, /projects/:id and /project_files/:id with a
\* numeric id answers 204 iff a row with that id existed, and then exactly
\* that row is gone, every other row unchanged, and the id is no longer
\* found; when no row has that id the answer is 404, no error is raised and
\* the store is unchanged.
CE_C10_DeleteAnswers ==
    \A r \in Reqs :
        LET q == reqs[r]
            t == RouteTable(q.route)
        IN  (Done(q) /\ q.method = "DELETE" /\ q.status # 400 /\ q.alone) =>
                /\ q.status \in {204, 404}
                /\ q.status = 204 <=> Exists(q.db0, t, q.id)
                /\ q.status = 204 =>
                      (q.db1 = Delete(q.db0, t, q.id) /\ ~Exists(q.db1, t, q.id))
                /\ q.status = 404 => q.db1 = q.db0

IsNumeric(raw) == raw # <<>> /\ \A i \in DOMAIN raw : IsDigit(raw[i])

WritesOf(q) == SelectSeq(q.qs, IsWrite)

\* C11: GET and PUT on /users/:id, /user_tokens/:id, /projects/:id and
\* /project_files/:id with a numeric id that matches no row answer 404,
\* perform no store write and leave the store unchanged.
CE_C11_MissingRowIs404 ==
    \A r \in Reqs :
        LET q == reqs[r]
        IN  (Done(q) /\ q.method \in {"GET", "PUT"} /\ q.route \in ItemRoutes
             /\ IsNumeric(q.raw) /\ ~Exists(q.db0, RouteTable(q.route), q.id)) =>
                /\ q.status = 404
                /\ WritesOf(q) = <<>>
                /\ q.db1 = q.db0

RequiredFields(rt) ==
    CASE rt = "users" -> {"sub", "email", "name", "picture"}
      [] rt = "user_tokens" -> {"UserID"}
      [] rt = "projects" -> {"OwningUserID", "ProjectName"}
      [] rt = "project_files" -> {"ProjectID", "FileName", "IsDirectory"}

InputError(q) ==
    \/ q.method \in {"GET", "PUT", "DELETE"} /\ ~IsNumeric(q.raw)
    \/ q.method = "POST" /\ ~(RequiredFields(q.route) \subseteq DOMAIN q.body)

\* C12: a client input error (a path id that is not numeric on GET, PUT or
\* DELETE, or a required body field missing on POST) is answered with 400
\* and the handler issues no store query of any kind.
CE_C12_InputErrorIs400 ==
    \A r \in Reqs :
        LET q == reqs[r]
        IN  (Done(q) /\ InputError(q)) => (q.status = 400 /\ q.qs = <<>>)

\* The store failed a write query of the request (a failed query is the
\* last one a handler issues).
WriteFailed(q) == q.failed /\ q.qs # <<>> /\ IsWrite(q.qs[Len(q.qs)])

\* C16: when the store raises an error during a write of a request (create,
\* save, createOrUpdate or delete), the response is 500 with the fixed
\* generic body, never a 2xx or a 404.
CE_C16_WriteErrorIs500 ==
    \A r \in Reqs :
        LET q == reqs[r]
        IN  (Done(q) /\ WriteFailed(q)) => (q.status = 500 /\ q.json = Null)

\* C18: after any sequence and interleaving of createOrUpdate calls the
\* store holds at most one user row per sub.
CE_C18_OneRowPerSub ==
    \A i, j \in DOMAIN db.users : db.users[i].sub = db.users[j].sub => i = j

\* Two requests that both loaded the row of one id on one of the routes
\* that update through save(), the store answering all their queries.
UpdatedSameRow(a, b) ==
    /\ a # b
    /\ Done(reqs[a]) /\ Done(reqs[b])
    /\ reqs[a].method = "PUT" /\ reqs[b].method = "PUT"
    /\ reqs[a].route \in SaveRoutes /\ reqs[b].route = reqs[a].route
    /\ reqs[a].id = reqs[b].id
    /\ reqs[a].inst # Null /\ reqs[b].inst # Null
    /\ ~reqs[a].failed /\ ~reqs[b].failed

\* C19: when two requests concurrently update the same row (each: load the
\* row, apply its changes, save), both answer 200 and the row's final
\* content is exactly the full field set written by the request whose
\* UPDATE executed last: whatever only the earlier writer changed is
\* overwritten.
Thm_C19_LastWriteWins ==
    \A a, b \in Reqs :
        UpdatedSameRow(a, b) =>
            LET t == RouteTable(reqs[a].route)
                id == reqs[a].id
                W == {w \in {a, b} : WritesOf(reqs[w]) # <<>>}
            IN  /\ reqs[a].status = 200 /\ reqs[b].status = 200
                /\ \A w \in W : reqs[w].db1[t][id] = EntityRow(reqs[w].inst)
                /\ W # {} =>
                      \E last \in W :
                          /\ db = reqs[last].db1
                          /\ db[t][id] = EntityRow(reqs[last].inst)
                /\ W = {} => db[t][id] = reqs[a].db0[t][id]

\* Two PUT /projects/:id ran concurrently on one row: the first changed the
\* name, the second, which had loaded the row before that UPDATE, did not
\* touch the name, and its UPDATE put the old name back.
Wit_C19_EarlierChangeLost ==
    \E a, b \in Reqs :
        /\ UpdatedSameRow(a, b)
        /\ reqs[a].route = "projects"
        /\ WritesOf(reqs[a]) # <<>> /\ WritesOf(reqs[b]) # <<>>
        /\ ~reqs[b].alone
        /\ "ProjectName" \in DOMAIN reqs[a].body
        /\ "ProjectName" \notin DOMAIN reqs[b].body
        /\ db = reqs[b].db1
        /\ reqs[a].db1.Project[reqs[a].id].ProjectName = reqs[a].body.ProjectName
        /\ db.Project[reqs[a].id].ProjectName # reqs[a].body.ProjectName
        /\ db.Project[reqs[a].id] = Project_row(reqs[b].inst)


-----------------------------------------------------------------------------
(* The list routes. *)

\* validSortFields of the routes that take sort and order
AllowList(rt) ==
    IF rt = "projects_sorted"
    THEN {Str_ProjectID, Str_ProjectName, Str_CreationDate}
    ELSE {Str_FileID, Str_FileName, Str_CreationDate}

\* The request names a sort outside the allow-list or an order that is
\* neither asc nor desc.
BadSortOrder(q) ==
    \/ HasParam(q.query, Str_order)
          /\ QueryValue(q.query, Str_order) \notin {Str_asc, Str_desc}
    \/ HasParam(q.query, Str_sort)
          /\ QueryValue(q.query, Str_sort) \notin AllowList(q.route)

\* C13: on the list routes that take sort and order, a request whose sort
\* is outside the allow-list or whose order is neither asc nor desc is
\* answered 400 without a store query, and every ORDER BY that reaches the
\* store names an allow-listed column and asc or desc.
Thm_C13_SortOrderChecked ==
    \A r \in Reqs :
        LET q == reqs[r]
        IN  q.method = "LIST" /\ q.route \in SortedRoutes =>
                /\ Done(q) /\ BadSortOrder(q) => q.status = 400 /\ q.qs = <<>>
                /\ \A k \in 1..Len(q.qs) :
                       "sort" \in DOMAIN q.qs[k] =>
                           /\ q.qs[k].sort \in AllowList(q.route)
                           /\ q.qs[k].order \in {Str_asc, Str_desc}

Wit_C13_BogusSortRefused ==
    \E r \in Reqs :
        /\ Done(reqs[r]) /\ reqs[r].method = "LIST"
        /\ reqs[r].route \in SortedRoutes
        /\ QueryValue(reqs[r].query, Str_sort) = Str_Bogus
        /\ reqs[r].status = 400

\* The rows of store d that satisfy the filter parameters of list request
\* q, on the routes that take filters; every row on the others.
Satisfying(q, d) ==
    LET t == RouteTable(q.route)
        has(n) == HasParam(q.query, n)
        val(n) == QueryValue(q.query, n)
    IN  {i \in DOMAIN d[t] :
            CASE q.route = "projects_sorted" ->
                    /\ has(Str_ProjectName) =>
                           IndexOf(<<d[t][i].ProjectName>>, val(Str_ProjectName), 1) > 0
                    /\ has(Str_OwningUserID) =>
                           toString(d[t][i].OwningUserID) = val(Str_OwningUserID)
              [] q.route = "project_files" ->
                    /\ has(Str_ProjectID) =>
                           toString(d[t][i].ProjectID) = val(Str_ProjectID)
                    /\ has(Str_FileName) =>
                           IndexOf(<<d[t][i].FileName>>, val(Str_FileName), 1) > 0
                    /\ has(Str_IsDirectory) =>
                           (d[t][i].IsDirectory = 1) = (val(Str_IsDirectory) = Str_true)
              [] OTHER -> TRUE}

\* The id an item of a list response carries.
ItemId(rt, item) ==
    CASE rt = "users" -> item.UserID
      [] rt = "user_tokens" -> item.TokenID
      [] rt \in {"projects", "projects_sorted"} -> item.ProjectID
      [] rt = "project_files" -> item.FileID

\* C14: a list request answered 200 while no other request changed the
\* store reports as total the number of rows that satisfy its filter,
\* returns only rows that satisfy it, each once, and returns exactly
\* min(limit, max(0, total - offset)) of them.
Thm_C14_ListCounts ==
    \A r \in Reqs :
        LET q == reqs[r]
            j == q.json
            S == Satisfying(q, q.db0)
        IN  Done(q) /\ q.method = "LIST" /\ q.status = 200 /\ q.alone =>
                /\ j.total = Cardinality(S)
                /\ \A k \in 1..Len(j.data) : ItemId(q.route, j.data[k]) \in S
                /\ \A k, l \in 1..Len(j.data) :
                       k # l => ItemId(q.route, j.data[k]) # ItemId(q.route, j.data[l])
                /\ Len(j.data) = Min(j.limit, Max(0, j.total - j.offset))

Wit_C14_FilteredPage ==
    \E r \in Reqs :
        LET q == reqs[r]
        IN  /\ Done(q) /\ q.method = "LIST" /\ q.status = 200 /\ q.alone
            /\ q.json.offset = 1 /\ q.json.limit = 2
            /\ HasParam(q.query, Str_ProjectName)
            /\ q.json.total = 2 /\ Len(q.json.data) = 1
            /\ Cardinality(DOMAIN q.db0.Project) = 3

\* C15: a read whose store query failed is answered as if nothing had been
\* found: GET /:id with 404 and a list with 200 and no items.
CE_C15_ReadErrorsSwallowed ==
    \A r \in Reqs :
        LET q == reqs[r]
        IN  Done(q) /\ q.failed =>
                /\ q.method = "GET" => q.status = 404
                /\ q.method = "LIST" => q.status = 200 /\ q.json.data = <<>>


-----------------------------------------------------------------------------
(* Token validity. *)

\* C17: isValid() answers true exactly at the instants that lie less than
\* TTL seconds after the token's creation instant, so it answers false at
\* TTL seconds and later; a token constructed without a TTL has TTL 3600.
Thm_C17_ValidWithinTTL ==
    /\ call.op = "isValid" =>
           LET elapsed == call.value.at - ent.CreationDate.time
           IN  /\ elapsed < 1000 * ent.TTL => call.value.valid
               /\ elapsed >= 1000 * ent.TTL => ~call.value.valid
    /\ call.op = "new" /\ call.field = "" => ent.TTL = 3600

Wit_C17_ExpiresAtTTL ==
    /\ call.op = "isValid"
    /\ ent.TTL = 3600
    /\ call.value.at - ent.CreationDate.time = 3600000
    /\ ~call.value.valid


-----------------------------------------------------------------------------
(* The connection pool. *)

\* C20: at most 50 connections of the pool are in use and at most 10
\* queries wait for one, and a query issued while 50 are in use and 10 wait
\* is rejected at once: it neither runs nor joins the queue.
Thm_C20_PoolBounded ==
    /\ pool.inUse <= 50
    /\ pool.queued <= 10
    /\ pool.full => pool.last = "error" /\ pool.inUse = 50 /\ pool.queued = 10

Wit_C20_RejectedWhenFull ==
    /\ pool.full
    /\ pool.last = "error"
    /\ pool.inUse = 50
    /\ pool.queued = 10


-----------------------------------------------------------------------------
(* The login callback. *)

\* C21: GET /auth/google/callback answers 302 with a redirect to the
\* application when the provider confirmed the identity and the user was
\* found or created, and answers 401 when the login was denied.
CE_C21_CallbackAnswers ==
    \A r \in Reqs :
        LET q == reqs[r]
        IN  Done(q) /\ q.method = "AUTH" =>
                /\ q.body.outcome = "confirmed" /\ ~q.failed =>
                       q.status = 302 /\ q.json.redirect = "app"
                /\ q.body.outcome = "denied" => q.status = 401


-----------------------------------------------------------------------------
(* Serialization. *)

\* The fields of an instance that hold a timestamp.
DateFields == {"lastLogin", "CreationDate", "_creationDate"}

\* C22: an instance constructed from the parsed text of toJSON() equals the
\* instance serialized in every field that is not a timestamp: ids (null
\* ones too), strings, flags and the parent directory.
Thm_C22_RoundTrip ==
    call.op = "hydrate" =>
        /\ DOMAIN call.value = DOMAIN ent
        /\ \A f \in DOMAIN ent \ DateFields : call.value[f] = ent[f]

Wit_C22_NullParentAndQuote ==
    /\ call.op = "hydrate"
    /\ ent.cls = "ProjectFile"
    /\ ent._parentDirectory = NullID /\ ent.FileID # NullID
    /\ ent._isDirectory
    /\ ent._fileName = <<"\"">>
    /\ call.value._fileName = <<"\"">>


-----------------------------------------------------------------------------
(* Claims on users and tokens (Spec). *)

\* A request of the users router that ran createOrUpdate to its end with
\* the store answering and no other request writing meanwhile.
RanCreateOrUpdate(q, method) ==
    /\ Done(q) /\ q.route = "users" /\ q.method = method
    /\ q.status \in {200, 201}
    /\ ~q.failed /\ q.alone

\* C24: createOrUpdate with a sub that has a row creates no row, updates
\* email, name and picture of that row and returns a User whose UserID is
\* that row's id; with a new sub it inserts exactly one row and returns the
\* id the store assigned.
CE_C24_CreateOrUpdate ==
    \A r \in Reqs :
        LET q == reqs[r]
            had == RowsBySub(q.db0, q.body.sub)
        IN  RanCreateOrUpdate(q, "POST") =>
                IF had # {}
                THEN /\ DOMAIN q.db1.users = DOMAIN q.db0.users
                     /\ q.json.UserID \in had
                     /\ q.db1.users[q.json.UserID].email = q.body.email
                     /\ q.db1.users[q.json.UserID].name = q.body.name
                     /\ q.db1.users[q.json.UserID].picture = q.body.picture
                ELSE /\ q.json.UserID \notin DOMAIN q.db0.users
                     /\ DOMAIN q.db1.users = DOMAIN q.db0.users \cup {q.json.UserID}
                     /\ q.db1.users[q.json.UserID].sub = q.body.sub

\* C25: PUT /users/:id on an existing user changes at most email, name,
\* picture and lastLogin of the row of that id, leaves its sub and every
\* other row as they were, and answers 200 with the path id as UserID.
CE_C25_PutUser ==
    \A r \in Reqs :
        LET q == reqs[r]
        IN  (RanCreateOrUpdate(q, "PUT") /\ Exists(q.db0, "users", q.id)) =>
                /\ q.status = 200
                /\ q.json.UserID = q.id
                /\ DOMAIN q.db1.users = DOMAIN q.db0.users
                /\ q.db1.users[q.id].sub = q.db0.users[q.id].sub
                /\ \A i \in DOMAIN q.db0.users \ {q.id} :
                      q.db1.users[i] = q.db0.users[i]


\* The ids of the tokens of user u
TokensOf(d, u) == {i \in DOMAIN d.active_tokens : d.active_tokens[i].user_id = u}

\* Every request that arrived was a POST of the router that replaces the
\* user's tokens, and all of them are answered, the store having answered
\* every query.
AllReplacingPostsDone ==
    /\ \E r \in Reqs : Done(reqs[r])
    /\ \A r \in Reqs :
          \/ reqs[r].pc = "idle"
          \/ /\ Done(reqs[r])
             /\ reqs[r].route = "user_tokens_replacing" /\ reqs[r].method = "POST"
             /\ reqs[r].status = 201

\* C26: on the route that deletes the user's tokens before it saves the new
\* one, once every POST /user_tokens is answered each user they were for has
\* at most one token in the store, in whatever order the requests' queries
\* ran.
CE_C26_OneTokenPerUser ==
    AllReplacingPostsDone =>
        \A r \in Reqs :
            Done(reqs[r]) => Cardinality(TokensOf(db, reqs[r].body.UserID)) <= 1


\* The token a row of active_tokens is loaded as.
TokenOfRow(d, id) ==
    ActiveToken_new(id, d.active_tokens[id].user_id, d.active_tokens[id].ttl,
                    Date(d.active_tokens[id].create_date, 0))

\* Request r is a PUT /user_tokens/:id whose token existed when it was
\* loaded, and this step sends its 200, the row being there when save()
\* wrote.
TokenPutAnswers(r) ==
    /\ reqs[r].pc # "done" /\ reqs'[r].pc = "done"
    /\ reqs'[r].route = "user_tokens" /\ reqs'[r].method = "PUT"
    /\ reqs'[r].status = 200
    /\ Exists(reqs'[r].db0, "active_tokens", reqs'[r].id)
    /\ Exists(db, "active_tokens", reqs'[r].id)

-----------------------------------------------------------------------------
(* Claims on findAll under concurrent writes (SpecRead). *)

\* total and items of the list response of q are what findAll reads in the
\* one store state d: total counts the rows of d that satisfy the filter,
\* the items are rows of d that satisfy it, and there are as many as the
\* page of total rows holds.
DescribesState(q, d) ==
    LET j == q.json
        S == Satisfying(q, d)
    IN  /\ j.total = Cardinality(S)
        /\ \A k \in 1..Len(j.data) : ItemId(q.route, j.data[k]) \in S
        /\ Len(j.data) = Min(j.limit, Max(0, j.total - j.offset))

\* C28: total and items of one findAll call describe one single state of
\* the store, one the store was in during the call (when it counted or when
\* it selected), also when another request deletes a matching row
\* meanwhile; so a page within the total never runs past it.
CE_C28_OneStoreState ==
    \A r \in Reqs :
        LET q == reqs[r]
        IN  Done(q) /\ q.method = "LIST" /\ q.status = 200 =>
                /\ \E d \in {q.db0, q.db1} : DescribesState(q, d)
                /\ q.json.offset <= q.json.total =>
                      q.json.offset + Len(q.json.data) <= q.json.total


-----------------------------------------------------------------------------
(* Claims on a save() whose write fails (SpecEntity). *)

\* save() of the instance's class
SaveOf(e, d, ai, ok) ==
    IF e.cls = "Project" THEN Project_save(e, d, ai, ok)
    ELSE ProjectFile_save(e, d, ai, ok)

\* C29: when the store write inside save() of a Project or ProjectFile
\* fails, the error propagates to the caller, the store is as it was, and
\* the instance keeps its dirty flag and the id it had (none for a new
\* one), so that a later save() attempts the same write again. Stated of
\* the save() just called, and of a save() of the instance at hand on a
\* store that fails.
Thm_C29_FailedSaveRetries ==
    /\ (SaveCalled /\ pre.ent.cls \in {"Project", "ProjectFile"} /\ call.threw) =>
          /\ pre.ent._isDirty
          /\ db = pre.db /\ autoinc = pre.autoinc
          /\ ent._isDirty
          /\ EntityId(ent) = EntityId(pre.ent)
          /\ SaveOf(ent, db, autoinc, TRUE).queries = queries
          /\ Len(Writes) = 1
    /\ (ent # Null /\ ent.cls \in {"Project", "ProjectFile"} /\ ent._isDirty) =>
          LET out == SaveOf(ent, db, autoinc, FALSE)
              again == SaveOf(out.ent, out.db, out.autoinc, TRUE)
          IN  /\ out.threw
              /\ out.db = db /\ out.autoinc = autoinc
              /\ out.ent._isDirty
              /\ EntityId(out.ent) = EntityId(ent)
              /\ again.queries = out.queries /\ again.queries # <<>>
              /\ ~again.threw /\ ~again.ent._isDirty

\* The INSERT of a new, changed ProjectFile failed: it is still new and
\* dirty.
Wit_C29_FailedInsert ==
    /\ SaveCalled /\ call.threw
    /\ pre.ent.cls = "ProjectFile"
    /\ pre.ent._isDirty /\ pre.ent.FileID = NullID
    /\ ent._isDirty /\ ent.FileID = NullID
    /\ db = pre.db


-----------------------------------------------------------------------------
(* Claims on the responses (Spec). *)

\* The handler of the request has run to its end: it returned, or the
\* promise it returned was rejected.
HandlerEnded(q) == q.pc \in {"done", "rejected"}

\* C30: every request to a registered route receives one response on every
\* path of its handler, the paths where the store fails included: a
\* request whose handler has ended has been sent a response, so no request
\* is left unanswered.
CE_C30_EveryRequestAnswered ==
    \A r \in Reqs : HandlerEnded(reqs[r]) => reqs[r].status # 0

====
